---- MODULE Spec2Model ----
(***************************************************************************)
(* File-access security and content fencing of prompt-builder             *)
(* (package promptbuilder, file_processor.go).                             *)
(*                                                                         *)
(* Strings and byte slices are sequences of one-character strings, so that *)
(* substring, prefix, extension and path-cleaning computations work on     *)
(* characters exactly as the Go code does.                                 *)
(***************************************************************************)
EXTENDS Integers, Sequences, FiniteSets, TLC

(***************************************************************************)
(* Bounds of the model.                                                    *)
(***************************************************************************)
\* longest file content, in bytes, that the filesystem of the model holds
MaxContentLen == 2
\* largest number of writes by other processes during one ProcessFile call
MaxWrites == 1
\* longest absolute path given to validatePathSecurity on its own
MaxAbsLen == 5
\* longest path given to ValidateFile on its own
MaxValLen == 4
\* longest content given to FenceContent on its own
MaxFenceContentLen == 2
\* longest display name given to FenceContent, the sample names apart
MaxNameLen == 3
\* calls made one after the other on the FileProcessors of a process
MaxCalls == 3
\* longest field of a Prompt given to Prompt.String on its own
MaxFieldLen == 2

(***************************************************************************)
(* strings package                                                         *)
(***************************************************************************)
\* the character ` of a code fence, which a TLA+ string cannot hold
Backtick == "GRAVE"

\* unicode.IsSpace over the characters of the model
WhiteSpace == {" ", "\t", "\n"}

\* strings.Contains(s, substr)
Contains(s, substr) ==
    \E i \in 0..(Len(s) - Len(substr)) : SubSeq(s, i + 1, i + Len(substr)) = substr

\* strings.HasPrefix(s, prefix)
HasPrefix(s, prefix) ==
    Len(s) >= Len(prefix) /\ SubSeq(s, 1, Len(prefix)) = prefix

RECURSIVE TrimLeft(_)
TrimLeft(s) ==
    IF s # <<>> /\ Head(s) \in WhiteSpace THEN TrimLeft(Tail(s)) ELSE s

RECURSIVE TrimRight(_)
TrimRight(s) ==
    IF s # <<>> /\ s[Len(s)] \in WhiteSpace
    THEN TrimRight(SubSeq(s, 1, Len(s) - 1))
    ELSE s

\* strings.TrimSpace(s)
TrimSpace(s) == TrimRight(TrimLeft(s))

\* concatenation of a sequence of strings
RECURSIVE Concat(_)
Concat(ss) == IF ss = <<>> THEN <<>> ELSE Head(ss) \o Concat(Tail(ss))

(***************************************************************************)
(* path/filepath package (Unix)                                            *)
(***************************************************************************)
\* filepath.Ext: the suffix beginning at the final dot in the final
\* slash-separated element of path; empty if there is no dot.
RECURSIVE ExtFrom(_, _)
ExtFrom(path, i) ==
    IF i < 1 \/ path[i] = "/" THEN <<>>
    ELSE IF path[i] = "." THEN SubSeq(path, i, Len(path))
    ELSE ExtFrom(path, i - 1)

Ext(path) == ExtFrom(path, Len(path))

\* the slash-separated elements of a path, empty ones included
RECURSIVE SplitFrom(_, _)
SplitFrom(s, cur) ==
    IF s = <<>> THEN <<cur>>
    ELSE IF Head(s) = "/" THEN <<cur>> \o SplitFrom(Tail(s), <<>>)
    ELSE SplitFrom(Tail(s), Append(cur, Head(s)))

Split(s) == SplitFrom(s, <<>>)

IsAbs(path) == path # <<>> /\ path[1] = "/"

DotDot == <<".", ".">>
Dot == <<".">>

\* the element stack of filepath.Clean: empty and "." elements dropped, ".."
\* removes the element before it, is dropped at the root and kept at the
\* front of a relative path
RECURSIVE CleanElems(_, _, _)
CleanElems(elems, stack, rooted) ==
    IF elems = <<>> THEN stack
    ELSE LET e == Head(elems)
             rest == Tail(elems)
         IN IF e = <<>> \/ e = Dot THEN CleanElems(rest, stack, rooted)
            ELSE IF e = DotDot
                 THEN IF stack # <<>> /\ stack[Len(stack)] # DotDot
                      THEN CleanElems(rest, SubSeq(stack, 1, Len(stack) - 1), rooted)
                      ELSE IF rooted THEN CleanElems(rest, stack, rooted)
                           ELSE CleanElems(rest, Append(stack, e), rooted)
                 ELSE CleanElems(rest, Append(stack, e), rooted)

\* elements joined by single slashes
RECURSIVE JoinElems(_)
JoinElems(elems) ==
    IF elems = <<>> THEN <<>>
    ELSE IF Len(elems) = 1 THEN Head(elems)
    ELSE Head(elems) \o <<"/">> \o JoinElems(Tail(elems))

\* filepath.Clean(path)
Clean(path) ==
    LET rooted == IsAbs(path)
        body == JoinElems(CleanElems(Split(path), <<>>, rooted))
    IN IF rooted THEN <<"/">> \o body
       ELSE IF body = <<>> THEN Dot ELSE body

\* filepath.Join(wd, path) for two non-empty elements
Join(a, b) == Clean(a \o <<"/">> \o b)

(***************************************************************************)
(* Errors.  An error value is the chain that errors.Is walks, outermost    *)
(* layer first: each fmt.Errorf with %w adds one layer above the error it  *)
(* wraps.  The fields after the chain are the values formatted into the    *)
(* innermost message.                                                      *)
(***************************************************************************)
NoError == [chain |-> <<>>, pattern |-> <<>>, actual |-> 0, max |-> 0]

NewError(name) == [chain |-> <<name>>, pattern |-> <<>>, actual |-> 0, max |-> 0]

\* fmt.Errorf(ctx + ": %w", e)
Wrap(ctx, e) == [e EXCEPT !.chain = <<ctx>> \o @]

\* errors.Is(e, target)
Is(e, target) == \E i \in 1..Len(e.chain) : e.chain[i] = target

IsError(e) == e.chain # <<>>

(***************************************************************************)
(* FileProcessor: fixed tables                                             *)
(***************************************************************************)
suspiciousPatterns ==
    << <<".", ".">>, <<"~">>, <<"/", "e", "t", "c">>, <<"/", "v", "a", "r">>, <<"/", "u", "s", "r">>, <<"/", "b", "i", "n">>, <<"/", "s", "b", "i", "n">>, <<"/", "d", "e", "v">>,
       <<"/", "s", "y", "s">>, <<"/", "p", "r", "o", "c">> >>

codeExtensions ==
    << <<".", "g", "o">>, <<".", "p", "y">>, <<".", "j", "s">>, <<".", "t", "s">>, <<".", "j", "a", "v", "a">>, <<".", "c", "p", "p">>, <<".", "c">>, <<".", "h">>,
       <<".", "c", "s">>, <<".", "p", "h", "p">>, <<".", "r", "b">>, <<".", "r", "s">> >>

languageMap ==
    << <<<<".", "g", "o">>, <<"g", "o">>>>, <<<<".", "p", "y">>, <<"p", "y", "t", "h", "o", "n">>>>, <<<<".", "j", "s">>, <<"j", "a", "v", "a", "s", "c", "r", "i", "p", "t">>>>,
       <<<<".", "t", "s">>, <<"t", "y", "p", "e", "s", "c", "r", "i", "p", "t">>>>, <<<<".", "j", "a", "v", "a">>, <<"j", "a", "v", "a">>>>, <<<<".", "c", "p", "p">>, <<"c", "p", "p">>>>,
       <<<<".", "c">>, <<"c">>>>, <<<<".", "h">>, <<"c">>>>, <<<<".", "c", "s">>, <<"c", "s", "h", "a", "r", "p">>>>,
       <<<<".", "p", "h", "p">>, <<"p", "h", "p">>>>, <<<<".", "r", "b">>, <<"r", "u", "b", "y">>>>, <<<<".", "r", "s">>, <<"r", "u", "s", "t">>>> >>

(***************************************************************************)
(* FileProcessor.ValidateFile                                              *)
(***************************************************************************)
\* a comparison that ignores letter case, as a bug would have it
FoldCase(s) == [i \in 1..Len(s) |-> IF s[i] = "C" THEN "c" ELSE s[i]]

ExtensionAllowed_FoldCase(ext, allowedExtensions) ==
    \E i \in 1..Len(allowedExtensions) : FoldCase(ext) = FoldCase(allowedExtensions[i])

\* the loop over fp.allowedExtensions
ExtensionAllowed(ext, allowedExtensions) ==
    \E i \in 1..Len(allowedExtensions) : ext = allowedExtensions[i]

\* ValidateFile without its check for an empty extension
ValidateFile_NoExtensionRequired(path, allowedExtensions) ==
    IF TrimSpace(path) = <<>> THEN NewError("ErrFilePathRequired")
    ELSE IF ~ExtensionAllowed(Ext(path), allowedExtensions)
         THEN Wrap("file extension is not allowed", NewError("ErrFileExtensionNotAllowed"))
    ELSE NoError

\* ValidateFile comparing the untrimmed path with the empty string
ValidateFile_NoTrim(path, allowedExtensions) ==
    IF path = <<>> THEN NewError("ErrFilePathRequired")
    ELSE IF Ext(path) = <<>> THEN NewError("ErrFileExtensionRequired")
    ELSE IF ~ExtensionAllowed(Ext(path), allowedExtensions)
         THEN Wrap("file extension is not allowed", NewError("ErrFileExtensionNotAllowed"))
    ELSE NoError

ValidateFile(path, allowedExtensions) ==
    IF TrimSpace(path) = <<>> THEN NewError("ErrFilePathRequired")
    ELSE IF Ext(path) = <<>> THEN NewError("ErrFileExtensionRequired")
    ELSE IF ~ExtensionAllowed(Ext(path), allowedExtensions)
         THEN Wrap("file extension is not allowed", NewError("ErrFileExtensionNotAllowed"))
    ELSE NoError

(***************************************************************************)
(* FileProcessor.FenceContent                                              *)
(***************************************************************************)
\* isCodeFile accepting every non-empty extension
isCodeFile_AnyExtension(ext) == ext # <<>>

isCodeFile(ext) == \E i \in 1..Len(codeExtensions) : ext = codeExtensions[i]

getLanguageFromExt(ext) ==
    IF \E i \in 1..Len(languageMap) : languageMap[i][1] = ext
    THEN languageMap[CHOOSE i \in 1..Len(languageMap) : languageMap[i][1] = ext][2]
    ELSE <<"t", "e", "x", "t">>

Backticks == <<Backtick, Backtick, Backtick>>

\* FenceContent that never writes the closing fence
FenceContent_NoClosingFence(content, filename) ==
    LET ext == Ext(filename)
    IN Concat(<< <<"B", "E", "G", "I", "N", " ">>, filename, <<"\n">>,
                 IF isCodeFile(ext)
                 THEN Backticks \o getLanguageFromExt(ext) \o <<"\n">>
                 ELSE <<>>,
                 content,
                 <<"\n", "E", "N", "D", " ">>, filename >>)

\* a FenceContent that drops a content in which an END marker appears
FenceContent_DropsMarkedContent(content, filename) ==
    LET ext == Ext(filename)
    IN Concat(<< <<"B", "E", "G", "I", "N", " ">>, filename, <<"\n">>,
                 IF isCodeFile(ext)
                 THEN Backticks \o getLanguageFromExt(ext) \o <<"\n">>
                 ELSE <<>>,
                 IF Contains(content, <<"E", "N", "D", " ">>) THEN <<>> ELSE content,
                 IF isCodeFile(ext) THEN <<"\n">> \o Backticks ELSE <<>>,
                 <<"\n", "E", "N", "D", " ">>, filename >>)

\* fp.FenceContent(content, filename)
FenceContent(content, filename) ==
    LET ext == Ext(filename)
    IN Concat(<< <<"B", "E", "G", "I", "N", " ">>, filename, <<"\n">>,
                 IF isCodeFile(ext)
                 THEN Backticks \o getLanguageFromExt(ext) \o <<"\n">>
                 ELSE <<>>,
                 content,
                 IF isCodeFile(ext) THEN <<"\n">> \o Backticks ELSE <<>>,
                 <<"\n", "E", "N", "D", " ">>, filename >>)

(***************************************************************************)
(* Operating system: environment lookups and the filesystem.               *)
(*                                                                         *)
(* An environment gives the results of os.UserHomeDir, os.Getwd and        *)
(* os.TempDir.  The filesystem is a fixed skeleton of directories plus a   *)
(* set of leaf entries, each absent, a directory, or a regular file with   *)
(* content and a read permission.  Entries are named by their elements.    *)
(***************************************************************************)
Envs ==
    { [home |-> <<"/", "h">>, homeErr |-> FALSE, cwd |-> <<"/", "h", "/", "p">>, cwdErr |-> FALSE, tmp |-> <<"/", "t">>],
      [home |-> <<"/", "h">>, homeErr |-> FALSE, cwd |-> <<"/", "o">>, cwdErr |-> FALSE, tmp |-> <<"/", "t">>],
      [home |-> <<>>, homeErr |-> TRUE, cwd |-> <<"/", "h", "/", "p">>, cwdErr |-> FALSE, tmp |-> <<"/", "t">>],
      [home |-> <<"/", "h">>, homeErr |-> FALSE, cwd |-> <<>>, cwdErr |-> TRUE, tmp |-> <<"/", "t">>] }

SkeletonDirs ==
    { <<>>, <<<<"h">>>>, <<<<"h">>, <<"p">>>>, <<<<"t">>>>, <<<<"o">>>>, <<<<"h", "x">>>> }

Leaves ==
    { <<<<"h">>, <<"p">>, <<"x", ".", "c">>>>,  \* /h/p/x.c
      <<<<"h">>, <<"x", ".", "c">>>>,  \* /h/x.c
      <<<<"t">>, <<"x", ".", "c">>>>,  \* /t/x.c
      <<<<"o">>, <<"x", ".", "c">>>>,  \* /o/x.c
      <<<<"h", "x">>, <<"x", ".", "c">>>>,  \* /hx/x.c
      <<<<"h">>, <<"p">>, <<"~", ".", "c">>>>,  \* /h/p/~.c
      <<<<"h">>, <<"p">>, <<"e", "t", "c", ".", "c">>>>,  \* /h/p/etc.c
      <<<<"h">>, <<"c">>>>,  \* /h/c
      <<<<"h">>, <<"p">>, <<"x", ".", "t">>>>,  \* /h/p/x.t
      <<<<"h">>, <<"p">>, <<"x", ".", "g", "o">>>>,  \* /h/p/x.go
      <<<<"h">>, <<"p">>, <<"x", ".", "p", "n", "g">>>> }  \* /h/p/x.png

Bytes == {"a", "b"}

RECURSIVE SeqsUpTo(_, _)
SeqsUpTo(S, n) ==
    IF n = 0 THEN {<<>>}
    ELSE LET shorter == SeqsUpTo(S, n - 1)
         IN shorter \cup {Append(s, c) : s \in {t \in shorter : Len(t) = n - 1}, c \in S}

Contents == SeqsUpTo(Bytes, MaxContentLen)

None == [kind |-> "none", content |-> <<>>, readable |-> FALSE]
Dir == [kind |-> "dir", content |-> <<>>, readable |-> TRUE]
File(c, r) == [kind |-> "file", content |-> c, readable |-> r]

Nodes == {None, Dir} \cup {File(c, r) : c \in Contents, r \in BOOLEAN}

NodeAt(fsys, elems) ==
    IF elems \in SkeletonDirs THEN Dir
    ELSE IF elems \in Leaves THEN fsys[elems]
    ELSE None

\* kernel path walk from directory cur along the elements comps
RECURSIVE Walk(_, _, _)
Walk(fsys, cur, comps) ==
    LET here == NodeAt(fsys, cur)
    IN IF comps = <<>>
       THEN IF here.kind = "none" THEN [err |-> "ENOENT", node |-> None]
            ELSE [err |-> "", node |-> here]
       ELSE IF here.kind = "none" THEN [err |-> "ENOENT", node |-> None]
       ELSE IF here.kind = "file" THEN [err |-> "ENOTDIR", node |-> None]
       ELSE LET c == Head(comps)
            IN IF c = <<>> \/ c = Dot THEN Walk(fsys, cur, Tail(comps))
               ELSE IF c = DotDot
                    THEN Walk(fsys, IF cur = <<>> THEN cur ELSE SubSeq(cur, 1, Len(cur) - 1),
                              Tail(comps))
                    ELSE Walk(fsys, Append(cur, c), Tail(comps))

\* the entry a path names for the kernel; a relative path starts at the
\* working directory
Lookup(fsys, e, path) ==
    IF path = <<>> THEN [err |-> "ENOENT", node |-> None]
    ELSE Walk(fsys,
              IF IsAbs(path) THEN <<>> ELSE CleanElems(Split(e.cwd), <<>>, TRUE),
              Split(path))

\* os.Stat(path)
OsStat(fsys, e, path) ==
    LET r == Lookup(fsys, e, path)
    IN [err |-> r.err, isDir |-> r.node.kind = "dir", size |-> Len(r.node.content)]

\* os.ReadFile(path)
OsReadFile(fsys, e, path) ==
    LET r == Lookup(fsys, e, path)
    IN IF r.err # "" THEN [err |-> r.err, content |-> <<>>]
       ELSE IF r.node.kind = "dir" THEN [err |-> "EISDIR", content |-> <<>>]
       ELSE IF ~r.node.readable THEN [err |-> "EACCES", content |-> <<>>]
       ELSE [err |-> "", content |-> r.node.content]

\* filepath.Abs(path)
Abs(path, e) ==
    IF IsAbs(path) THEN [err |-> NoError, path |-> Clean(path)]
    ELSE IF e.cwdErr THEN [err |-> NewError("GetwdError"), path |-> <<>>]
    ELSE [err |-> NoError, path |-> Join(e.cwd, path)]

(***************************************************************************)
(* FileProcessor.validatePathSecurity, in its three ordered parts          *)
(***************************************************************************)
\* the loop over suspiciousPatterns: the first pattern found is reported
CheckDenylist(absPath) ==
    IF \E i \in 1..Len(suspiciousPatterns) : Contains(absPath, suspiciousPatterns[i])
    THEN LET first == CHOOSE i \in 1..Len(suspiciousPatterns) :
                          /\ Contains(absPath, suspiciousPatterns[i])
                          /\ \A j \in 1..(i - 1) : ~Contains(absPath, suspiciousPatterns[j])
         IN [chain |-> <<"contains suspicious pattern", "ErrSuspiciousPath">>,
             pattern |-> suspiciousPatterns[first], actual |-> 0, max |-> 0]
    ELSE NoError

\* a containment test that compares whole path elements
CheckContainment_WholeElements(absPath, e) ==
    IF e.homeErr
    THEN Wrap("failed to get user home directory", NewError("UserHomeDirError"))
    ELSE IF e.cwdErr
    THEN Wrap("failed to get current working directory", NewError("GetwdError"))
    ELSE IF ~(\E root \in {e.home, e.cwd, e.tmp} :
                absPath = root \/ HasPrefix(absPath, root \o <<"/">>))
    THEN Wrap("is outside allowed directories", NewError("ErrPathOutsideAllowed"))
    ELSE NoError

\* home, working and temp directory lookups and the prefix test
CheckContainment(absPath, e) ==
    IF e.homeErr
    THEN Wrap("failed to get user home directory", NewError("UserHomeDirError"))
    ELSE IF e.cwdErr
    THEN Wrap("failed to get current working directory", NewError("GetwdError"))
    ELSE IF ~(\/ HasPrefix(absPath, e.home)
              \/ HasPrefix(absPath, e.cwd)
              \/ HasPrefix(absPath, e.tmp))
    THEN Wrap("is outside allowed directories", NewError("ErrPathOutsideAllowed"))
    ELSE NoError

\* the stat without the IsDir test
CheckStat_NoDirCheck(absPath, e, fsys) ==
    LET st == OsStat(fsys, e, absPath)
    IN IF st.err # "" THEN Wrap("failed to stat file", NewError(st.err))
       ELSE NoError

\* the stat that requires an existing entry that is not a directory
CheckStat(absPath, e, fsys) ==
    LET st == OsStat(fsys, e, absPath)
    IN IF st.err # "" THEN Wrap("failed to stat file", NewError(st.err))
       ELSE IF st.isDir THEN Wrap("is a directory, not a file", NewError("ErrPathIsDirectory"))
       ELSE NoError

\* the two checks in the opposite order
SecurityPrecheck_ContainmentFirst(absPath, e) ==
    IF IsError(CheckContainment(absPath, e)) THEN CheckContainment(absPath, e)
    ELSE CheckDenylist(absPath)

\* the two checks that make no filesystem call, denylist first
SecurityPrecheck(absPath, e) ==
    IF IsError(CheckDenylist(absPath)) THEN CheckDenylist(absPath)
    ELSE CheckContainment(absPath, e)

validatePathSecurity(absPath, e, fsys) ==
    IF IsError(SecurityPrecheck(absPath, e)) THEN SecurityPrecheck(absPath, e)
    ELSE CheckStat(absPath, e, fsys)

(***************************************************************************)
(* State                                                                   *)
(***************************************************************************)
VARIABLES
    fp,        \* the FileProcessor: maxFileSize and allowedExtensions
    env,       \* results of the environment lookups of the process
    fs,        \* the leaf entries of the filesystem
    pc,        \* position of the call in progress
    path,      \* argument of ProcessFile / ValidateFile
    absPath,   \* ProcessFile's absPath; argument of validatePathSecurity
    content,   \* ProcessFile's content, and FenceContent's argument
    filename,  \* argument of FenceContent
    ret,       \* returned (*FileContent, error); fc is empty for nil
    out,       \* string returned by FenceContent
    trace,     \* steps the call has executed, in order
    writes     \* writes made by other processes during the call

\* the callers of the FileProcessor: the Builder and the command line
VARIABLES
    calls,     \* the completed calls on FileProcessors, in order
    builder,   \* the Builder: its systemPresets (fileProcessor is fp)
    req,       \* argument of BuildPrompt
    bpc,       \* position of BuildPrompt
    result,    \* returned (*BuildResult, error); prompt is empty for nil
    args,      \* argument of RunCLI
    cpc,       \* position of RunCLI
    stdout,    \* what RunCLI has written to its output
    cliErr,    \* error returned by RunCLI
    threads    \* the calls that goroutines make concurrently on fp, with their locals

callerVars == <<calls, builder, req, bpc, result, args, cpc, stdout, cliErr, threads>>

vars == <<fp, env, fs, pc, path, absPath, content, filename, ret, out, trace, writes,
          calls, builder, req, bpc, result, args, cpc, stdout, cliErr, threads>>

\* BuildRequest{}: every field empty
NoRequest ==
    [Prompt |-> <<>>, File |-> <<>>, Task |-> <<>>, SystemMessage |-> <<>>,
     Guidelines |-> <<>>, Image |-> <<>>, OutputFormat |-> <<>>]

\* (nil, nil) of BuildPrompt
NoBuildResult == [prompt |-> <<>>, err |-> NoError]

\* no Builder and no command line in the process
NoCaller ==
    /\ calls = <<>>
    /\ builder = [systemPresets |-> <<>>]
    /\ req = NoRequest
    /\ bpc = "idle"
    /\ result = NoBuildResult
    /\ args = <<>>
    /\ cpc = "idle"
    /\ stdout = <<>>
    /\ cliErr = NoError
    /\ threads = <<>>

NoResult == [fc |-> <<>>, err |-> NoError]

\* a failure that hands out the content read so far
Failure_ExposesContent(e) ==
    [fc |-> IF content = <<>> THEN <<>>
            ELSE << [Path |-> path, Content |-> content, Size |-> Len(content)] >>,
     err |-> e]

\* return nil, err
Failure(e) == [fc |-> <<>>, err |-> e]

(***************************************************************************)
(* Inputs                                                                  *)
(***************************************************************************)
AllowLists == { << <<".", "c">> >>, << <<>>, <<".", "t">>, <<".", "c">> >>, <<>> }

MaxFileSizes == {0, 1}

\* NewFileProcessor(maxFileSize, allowedExtensions)
NewFileProcessor(maxFileSize, allowedExtensions) ==
    [maxFileSize |-> maxFileSize, allowedExtensions |-> allowedExtensions]

Paths ==
    { <<>>,  \* ""
      <<" ">>,  \* " "
      <<" ", "\t">>,  \* " \t"
      <<"x", ".", "c">>,  \* "x.c"
      <<".", "/", "x", ".", "c">>,  \* "./x.c"
      <<".", ".", "/", "x", ".", "c">>,  \* "../x.c"
      <<"q", "/", ".", ".", "/", "x", ".", "c">>,  \* "q/../x.c"
      <<".", ".", "/", "p", "/", "x", ".", "c">>,  \* "../p/x.c"
      <<".", ".", "/", ".", ".", "/", "t", "/", "x", ".", "c">>,  \* "../../t/x.c"
      <<".", ".", "/", ".", ".", "/", "o", "/", "x", ".", "c">>,  \* "../../o/x.c"
      <<".", ".", "/", ".", ".", "/", "h", "x", "/", "x", ".", "c">>,  \* "../../hx/x.c"
      <<"x">>,  \* "x"
      <<"x", ".", "t">>,  \* "x.t"
      <<"x", ".", "C">>,  \* "x.C"
      <<"x", ".">>,  \* "x."
      <<"~", ".", "c">>,  \* "~.c"
      <<"e", "t", "c", ".", "c">>,  \* "etc.c"
      <<".", ".">>,  \* ".."
      <<".">>,  \* "."
      <<".", ".", "/", ".", ".">>,  \* "../.."
      <<"/", "h", "/", "p", "/", "x", ".", "c">>,  \* "/h/p/x.c"
      <<"/", "h", "/", "x", ".", "c">>,  \* "/h/x.c"
      <<"/", "t", "/", "x", ".", "c">>,  \* "/t/x.c"
      <<"/", "o", "/", "x", ".", "c">>,  \* "/o/x.c"
      <<"/", "h", "x", "/", "x", ".", "c">>,  \* "/hx/x.c"
      <<"/", "h", "/", "p", "/", ".", ".", "/", "x", ".", "c">>,  \* "/h/p/../x.c"
      <<"/", "h", "/", "/", "p", "/", "x", ".", "c">>,  \* "/h//p/x.c"
      <<"/", "h", "/", "c">>,  \* "/h/c"
      <<".", ".", "/", "c">>,  \* "../c"
      <<"/", "h", "/", "p", "/", "x", ".", "t">>,  \* "/h/p/x.t"
      <<"/", "h", "/", "p">>,  \* "/h/p"
      <<"/", "h", "/", "p", "/", "~", ".", "c">>,  \* "/h/p/~.c"
      <<"/", "h", "/", "p", "/", "e", "t", "c", ".", "c">>,  \* "/h/p/etc.c"
      <<"/", "e", "t", "c", "/", "x", ".", "c">>,  \* "/etc/x.c"
      <<"/">>,  \* "/"
      <<"/", "h", "/", "p", "/", "x", ".", "c", "/">>,  \* "/h/p/x.c/"
      <<"/", "h", ".", "c", "/", "x">>,  \* "/h.c/x"
      <<"/", "q", "/", "x", ".", "c">> }  \* "/q/x.c"

\* the elements of the entry that a call with path p consults: the entry
\* named by the cleaned absolute path
EntryOf(p, e) == CleanElems(Split(Abs(p, e).path), <<>>, TRUE)

\* the filesystems a call with path p can tell apart: the skeleton and the
\* entry the path names, in every state; entries that the call never
\* consults are absent
InitialFilesystems(p, e) ==
    { [l \in Leaves |-> IF l = EntryOf(p, e) THEN n ELSE None] : n \in Nodes }

(***************************************************************************)
(* FileProcessor.ProcessFile.  The call takes one step per filesystem      *)
(* call, so that other processes can act between them.                     *)
(***************************************************************************)
Init ==
    /\ fp \in {NewFileProcessor(m, a) : m \in MaxFileSizes, a \in AllowLists}
    /\ env \in Envs
    /\ path \in Paths
    /\ fs \in InitialFilesystems(path, env)
    /\ pc = "start"
    /\ absPath = <<>>
    /\ content = <<>>
    /\ filename = <<>>
    /\ ret = NoResult
    /\ out = <<>>
    /\ trace = <<>>
    /\ writes = 0
    /\ NoCaller

\* the steps of validatePathSecurity before its stat, as executed
SecuritySteps(abs, e) ==
    IF IsError(CheckDenylist(abs)) THEN <<"denylist">>
    ELSE IF e.homeErr THEN <<"denylist", "UserHomeDir">>
    ELSE IF e.cwdErr THEN <<"denylist", "UserHomeDir", "Getwd">>
    ELSE <<"denylist", "UserHomeDir", "Getwd", "TempDir", "containment">>

\* a ProcessFile that resolves the absolute path before it validates the path
ProcessFile_Validate_AbsFirst ==
    /\ pc = "start"
    /\ LET verr == ValidateFile(path, fp.allowedExtensions)
           abs == Abs(path, env)
           serr == SecurityPrecheck(abs.path, env)
       IN IF IsError(abs.err)
          THEN /\ ret' = Failure(Wrap("invalid file path", abs.err))
               /\ trace' = <<"Abs">>
               /\ pc' = "done"
               /\ absPath' = absPath
          ELSE IF IsError(verr)
          THEN /\ ret' = Failure(Wrap("file validation failed", verr))
               /\ trace' = <<"Abs", "ValidateFile">>
               /\ pc' = "done"
               /\ absPath' = absPath
          ELSE IF IsError(serr)
          THEN /\ ret' = Failure(Wrap("security validation failed", serr))
               /\ trace' = <<"Abs", "ValidateFile">> \o SecuritySteps(abs.path, env)
               /\ pc' = "done"
               /\ absPath' = abs.path
          ELSE /\ ret' = ret
               /\ trace' = <<"Abs", "ValidateFile">> \o SecuritySteps(abs.path, env)
               /\ pc' = "stat"
               /\ absPath' = abs.path
    /\ UNCHANGED <<fp, env, fs, path, content, filename, out, writes>>
    /\ UNCHANGED callerVars

\* ValidateFile, filepath.Abs and validatePathSecurity up to its stat
ProcessFile_Validate ==
    /\ pc = "start"
    /\ LET verr == ValidateFile(path, fp.allowedExtensions)
           abs == Abs(path, env)
           serr == SecurityPrecheck(abs.path, env)
       IN IF IsError(verr)
          THEN /\ ret' = Failure(Wrap("file validation failed", verr))
               /\ trace' = <<"ValidateFile">>
               /\ pc' = "done"
               /\ absPath' = absPath
          ELSE IF IsError(abs.err)
          THEN /\ ret' = Failure(Wrap("invalid file path", abs.err))
               /\ trace' = <<"ValidateFile", "Abs">>
               /\ pc' = "done"
               /\ absPath' = absPath
          ELSE IF IsError(serr)
          THEN /\ ret' = Failure(Wrap("security validation failed", serr))
               /\ trace' = <<"ValidateFile", "Abs">> \o SecuritySteps(abs.path, env)
               /\ pc' = "done"
               /\ absPath' = abs.path
          ELSE /\ ret' = ret
               /\ trace' = <<"ValidateFile", "Abs">> \o SecuritySteps(abs.path, env)
               /\ pc' = "stat"
               /\ absPath' = abs.path
    /\ UNCHANGED <<fp, env, fs, path, content, filename, out, writes>>
    /\ UNCHANGED callerVars

\* the os.Stat(absPath) that ends validatePathSecurity
ProcessFile_SecurityStat ==
    /\ pc = "stat"
    /\ LET serr == CheckStat(absPath, env, fs)
       IN IF IsError(serr)
          THEN /\ ret' = Failure(Wrap("security validation failed", serr))
               /\ pc' = "done"
          ELSE /\ ret' = ret
               /\ pc' = "read"
    /\ trace' = Append(trace, "Stat(absPath)")
    /\ UNCHANGED <<fp, env, fs, path, absPath, content, filename, out, writes>>
    /\ UNCHANGED callerVars

\* the error of the size check
FileTooLarge(actual, max) ==
    [chain |-> <<"file is too large", "ErrFileTooLarge">>, pattern |-> <<>>,
     actual |-> actual, max |-> max]

\* a size comparison that lets one byte too many through
SizeExceeds_OffByOne(c, maxFileSize) == Len(c) > maxFileSize + 1

\* a size comparison that lets every content through
SizeExceeds_Never(c, maxFileSize) == FALSE

\* int64(len(content)) > fp.maxFileSize
SizeExceeds(c, maxFileSize) == Len(c) > maxFileSize

\* a FileContent that carries the resolved path
NewFileContent_AbsPath(p, abs, c, size) == [Path |-> abs, Content |-> c, Size |-> size]

\* a FileContent whose Size is the length of the content read
NewFileContent_SizeOfContent(p, abs, c, size) == [Path |-> p, Content |-> c, Size |-> Len(c)]

\* the FileContent that ProcessFile returns
NewFileContent(p, abs, c, size) == [Path |-> p, Content |-> c, Size |-> size]

\* os.ReadFile(absPath) and the comparison of len(content) with maxFileSize
ProcessFile_ReadFile ==
    /\ pc = "read"
    /\ LET rd == OsReadFile(fs, env, absPath)
       IN IF rd.err # ""
          THEN /\ ret' = Failure(Wrap("failed to read file", NewError(rd.err)))
               /\ trace' = Append(trace, "ReadFile(absPath)")
               /\ content' = content
               /\ pc' = "done"
          ELSE IF SizeExceeds(rd.content, fp.maxFileSize)
          THEN /\ ret' = Failure(FileTooLarge(Len(rd.content), fp.maxFileSize))
               /\ trace' = trace \o <<"ReadFile(absPath)", "size">>
               /\ content' = rd.content
               /\ pc' = "done"
          ELSE /\ ret' = ret
               /\ trace' = trace \o <<"ReadFile(absPath)", "size">>
               /\ content' = rd.content
               /\ pc' = "stat2"
    /\ UNCHANGED <<fp, env, fs, path, absPath, filename, out, writes>>
    /\ UNCHANGED callerVars

\* os.Stat(path) and the construction of the FileContent
ProcessFile_Stat ==
    /\ pc = "stat2"
    /\ LET st == OsStat(fs, env, path)
       IN IF st.err # ""
          THEN ret' = Failure(Wrap("failed to get file info", NewError(st.err)))
          ELSE ret' = [fc |-> << NewFileContent(path, absPath, content, st.size) >>,
                       err |-> NoError]
    /\ trace' = Append(trace, "Stat(path)")
    /\ pc' = "done"
    /\ UNCHANGED <<fp, env, fs, path, absPath, content, filename, out, writes>>
    /\ UNCHANGED callerVars

\* another process creates, replaces or removes the entry named by absPath
\* while the call is between two of its filesystem calls
OtherProcessWrites ==
    /\ pc \in {"stat", "read", "stat2"}
    /\ writes < MaxWrites
    /\ LET target == EntryOf(path, env)
       IN /\ target \in Leaves
          /\ \E n \in Nodes :
                /\ n # fs[target]
                /\ fs' = [fs EXCEPT ![target] = n]
    /\ writes' = writes + 1
    /\ UNCHANGED <<fp, env, pc, path, absPath, content, filename, ret, out, trace>>
    /\ UNCHANGED callerVars

Next ==
    \/ ProcessFile_Validate
    \/ ProcessFile_SecurityStat
    \/ ProcessFile_ReadFile
    \/ ProcessFile_Stat
    \/ OtherProcessWrites

Spec == Init /\ [][Next]_vars

\* ProcessFile with no other process touching the filesystem
NextSeq ==
    \/ ProcessFile_Validate
    \/ ProcessFile_SecurityStat
    \/ ProcessFile_ReadFile
    \/ ProcessFile_Stat

SpecSeq == Init /\ [][NextSeq]_vars

(***************************************************************************)
(* The pure operations taken alone: Init draws the arguments, one action   *)
(* applies the operation.                                                  *)
(***************************************************************************)
ValidateChars == {" ", "\t", ".", "/", "c", "C"}

ValidatePaths == SeqsUpTo(ValidateChars, MaxValLen)

InitValidate ==
    /\ fp \in {NewFileProcessor(m, a) : m \in MaxFileSizes, a \in AllowLists}
    /\ env \in {e \in Envs : ~e.homeErr /\ ~e.cwdErr /\ e.cwd = <<"/", "h", "/", "p">>}
    /\ fs = [l \in Leaves |-> None]
    /\ path \in ValidatePaths
    /\ pc = "start"
    /\ absPath = <<>>
    /\ content = <<>>
    /\ filename = <<>>
    /\ ret = NoResult
    /\ out = <<>>
    /\ trace = <<>>
    /\ writes = 0
    /\ NoCaller

\* fp.ValidateFile(path)
ValidateFileCall ==
    /\ pc = "start"
    /\ ret' = [fc |-> <<>>, err |-> ValidateFile(path, fp.allowedExtensions)]
    /\ trace' = <<"ValidateFile">>
    /\ pc' = "done"
    /\ UNCHANGED <<fp, env, fs, path, absPath, content, filename, out, writes>>
    /\ UNCHANGED callerVars

SpecValidate == InitValidate /\ [][ValidateFileCall]_vars

AbsChars == {"/", ".", "~", "h", "e", "t", "c"}

AbsPaths == {s \in SeqsUpTo(AbsChars, MaxAbsLen) : IsAbs(s)}

\* the entry /h/c absent, a directory or a file
SecurityFilesystems ==
    { [l \in Leaves |-> IF l = <<<<"h">>, <<"c">>>> THEN n ELSE None] :
        n \in {None, Dir, File(<<"a">>, TRUE)} }

InitSecurity ==
    /\ fp = NewFileProcessor(1, << <<".", "c">> >>)
    /\ env \in Envs
    /\ fs \in SecurityFilesystems
    /\ path = <<>>
    /\ pc = "start"
    /\ absPath \in AbsPaths
    /\ content = <<>>
    /\ filename = <<>>
    /\ ret = NoResult
    /\ out = <<>>
    /\ trace = <<>>
    /\ writes = 0
    /\ NoCaller

\* fp.validatePathSecurity(absPath)
validatePathSecurityCall ==
    /\ pc = "start"
    /\ ret' = [fc |-> <<>>, err |-> validatePathSecurity(absPath, env, fs)]
    /\ trace' = <<"validatePathSecurity">>
    /\ pc' = "done"
    /\ UNCHANGED <<fp, env, fs, path, absPath, content, filename, out, writes>>
    /\ UNCHANGED callerVars

SpecSecurity == InitSecurity /\ [][validatePathSecurityCall]_vars

NameChars == {".", "/", "c", "g", "o"}

\* display names: every short name, and one name for each extension of the
\* tables and for some extensions outside them
FenceNames ==
    SeqsUpTo(NameChars, MaxNameLen)
    \cup { <<"f", ".", "g", "o">>, <<"f", ".", "p", "y">>, <<"f", ".", "j", "s">>, <<"f", ".", "t", "s">>, <<"f", ".", "j", "a", "v", "a">>, <<"f", ".", "c", "p", "p">>, <<"f", ".", "c">>, <<"f", ".", "h">>,
           <<"f", ".", "c", "s">>, <<"f", ".", "p", "h", "p">>, <<"f", ".", "r", "b">>, <<"f", ".", "r", "s">>, <<"f", ".", "t", "x", "t">>, <<"f", ".", "G", "O">>, <<"f">>, <<"d", ".", "g", "o", "/", "f">> }

FenceBytes == {"a", "\n", Backtick}

\* contents that hold the text of a marker line or of a fence
MarkerContents ==
    { <<"E", "N", "D", " ", "f">>,
      <<"x", "\n", "E", "N", "D", " ", "f", ".", "g", "o", "\n", "y">>,
      <<"\n", "E", "N", "D", " ", "f", "\n", "B", "E", "G", "I", "N", " ", "f", "\n">>,
      <<"B", "E", "G", "I", "N", " ", "f", ".", "g", "o">>,
      <<"a", "\n">> \o Backticks \o <<"\n", "a">> }

FenceContents == SeqsUpTo(FenceBytes, MaxFenceContentLen) \cup MarkerContents

InitFence ==
    /\ fp \in {NewFileProcessor(m, a) : m \in MaxFileSizes, a \in AllowLists}
    /\ env \in {e \in Envs : ~e.homeErr /\ ~e.cwdErr /\ e.cwd = <<"/", "h", "/", "p">>}
    /\ fs = [l \in Leaves |-> None]
    /\ path = <<>>
    /\ pc = "start"
    /\ absPath = <<>>
    /\ content \in FenceContents
    /\ filename \in FenceNames
    /\ ret = NoResult
    /\ out = <<>>
    /\ trace = <<>>
    /\ writes = 0
    /\ NoCaller

\* fp.FenceContent(content, filename)
FenceContentCall ==
    /\ pc = "start"
    /\ out' = FenceContent(content, filename)
    /\ trace' = <<"FenceContent">>
    /\ pc' = "done"
    /\ UNCHANGED <<fp, env, fs, path, absPath, content, filename, ret, writes>>
    /\ UNCHANGED callerVars

SpecFence == InitFence /\ [][FenceContentCall]_vars

(***************************************************************************)
(* Vocabulary of the properties                                            *)
(***************************************************************************)
\* the path is empty or made of white space only
IsBlank(s) == \A i \in 1..Len(s) : s[i] \in WhiteSpace

\* the final element of the path holds no dot
EmptyExtension(p) ==
    LET last == Split(p)[Len(Split(p))]
    IN \A i \in 1..Len(last) : last[i] # "."

\* some element of the path is the parent-directory marker
HasParentElement(p) == \E i \in 1..Len(Split(p)) : Split(p)[i] = DotDot

\* no entry of the allow-list equals the extension of the path
NotInAllowList(p) ==
    \A i \in 1..Len(fp.allowedExtensions) : fp.allowedExtensions[i] # Ext(p)

Denylisted ==
    { <<".", ".">>, <<"~">>, <<"/", "e", "t", "c">>, <<"/", "v", "a", "r">>, <<"/", "u", "s", "r">>, <<"/", "b", "i", "n">>, <<"/", "s", "b", "i", "n">>, <<"/", "d", "e", "v">>, <<"/", "s", "y", "s">>,
      <<"/", "p", "r", "o", "c">> }

ContainsDenylisted(p) == \E d \in Denylisted : Contains(p, d)

\* p is the directory root or an entry below it
LiesUnder(p, root) == p = root \/ HasPrefix(p, root \o <<"/">>)

HasSuffix(s, suffix) ==
    Len(s) >= Len(suffix) /\ SubSeq(s, Len(s) - Len(suffix) + 1, Len(s)) = suffix

Occurrences(s, sub) ==
    Cardinality({i \in 0..(Len(s) - Len(sub)) : SubSeq(s, i + 1, i + Len(sub)) = sub})

FilesystemCalls == {"Stat(absPath)", "ReadFile(absPath)", "Stat(path)"}

NoFilesystemCall == \A i \in 1..Len(trace) : trace[i] \notin FilesystemCalls

NoRead == \A i \in 1..Len(trace) : trace[i] # "ReadFile(absPath)"

\* the entry the path argument names for the operating system
Target == Lookup(fs, env, path)

(***************************************************************************)
(* C1                                                                      *)
(***************************************************************************)
\* C1 as stated: for every path whose extension matches no entry of the
\* allow-list, ProcessFile fails with ErrFileExtensionNotAllowed without any
\* filesystem call.  A path without extension, or a blank path, is rejected
\* with another error.
C1_AsStated ==
    (pc = "done" /\ NotInAllowList(path))
        => (Is(ret.err, "ErrFileExtensionNotAllowed") /\ NoFilesystemCall)

\* C1 amended: for every path whose extension is not empty and equals no
\* entry of the allow-list (case-sensitive), ProcessFile fails with
\* ErrFileExtensionNotAllowed, returns no FileContent and makes no
\* filesystem call (no stat, no ReadFile).
C1_ExtensionNotAllowed ==
    (pc = "done" /\ Ext(path) # <<>> /\ NotInAllowList(path))
        => /\ Is(ret.err, "ErrFileExtensionNotAllowed")
           /\ ret.fc = <<>>
           /\ NoFilesystemCall

\* an extension that differs from an allowed one by letter case only
C1_Witness ==
    /\ pc = "done"
    /\ Ext(path) = <<".", "C">>
    /\ \E i \in 1..Len(fp.allowedExtensions) : fp.allowedExtensions[i] = <<".", "c">>
    /\ Is(ret.err, "ErrFileExtensionNotAllowed")
    /\ trace = <<"ValidateFile">>

(***************************************************************************)
(* C2                                                                      *)
(***************************************************************************)
\* C2: every absolute path that contains a denylisted substring anywhere is
\* rejected by validatePathSecurity with ErrSuspiciousPath naming a pattern
\* the path contains, inside or outside the roots, whole element or not.
C2_SuspiciousPath ==
    (pc = "done" /\ ContainsDenylisted(absPath))
        => /\ Is(ret.err, "ErrSuspiciousPath")
           /\ ret.err.pattern \in Denylisted
           /\ Contains(absPath, ret.err.pattern)

\* a path under the home directory with ~ inside a longer element
C2_Witness ==
    /\ pc = "done"
    /\ ~env.homeErr
    /\ LiesUnder(absPath, env.home)
    /\ Contains(absPath, <<"~">>)
    /\ \A i \in 1..Len(Split(absPath)) : Split(absPath)[i] # <<"~">>
    /\ Is(ret.err, "ErrSuspiciousPath")

(***************************************************************************)
(* C3                                                                      *)
(***************************************************************************)
\* C3: ProcessFile returns an error and no FileContent for every path with
\* a parent-directory element.  filepath.Abs removes the element before the
\* denylist sees the path, so ../x.c from /h/p is read as /h/x.c.
C3_TraversalRejected ==
    (pc = "done" /\ HasParentElement(path)) => (ret.fc = <<>> /\ IsError(ret.err))

(***************************************************************************)
(* C4                                                                      *)
(***************************************************************************)
\* C4: with the home and working directory known, every absolute path that
\* contains no denylisted substring and lies under none of home, working
\* and temp directory is rejected with ErrPathOutsideAllowed.  The prefix
\* test lets /hh pass for the home /h.
C4_OutsideRootsRejected ==
    (/\ pc = "done"
     /\ ~env.homeErr /\ ~env.cwdErr
     /\ ~ContainsDenylisted(absPath)
     /\ ~LiesUnder(absPath, env.home)
     /\ ~LiesUnder(absPath, env.cwd)
     /\ ~LiesUnder(absPath, env.tmp))
        => Is(ret.err, "ErrPathOutsideAllowed")

(***************************************************************************)
(* C5                                                                      *)
(***************************************************************************)
InsideRoot(abs) ==
    \/ ~env.homeErr /\ LiesUnder(abs, env.home)
    \/ ~env.cwdErr /\ LiesUnder(abs, env.cwd)
    \/ LiesUnder(abs, env.tmp)

\* ProcessFile returned the file named by path as it is on disk
ReturnsFileOnDisk ==
    /\ ret.err = NoError
    /\ ret.fc = << [Path |-> path, Content |-> Target.node.content,
                    Size |-> Len(Target.node.content)] >>

\* C5 as stated: for every regular file inside an allowed root, with an
\* allowed extension and content length <= maxFileSize, ProcessFile returns
\* the FileContent of the file.  A file whose absolute path contains a
\* denylisted substring, or that cannot be read, is refused.
C5_AsStated ==
    (/\ pc = "done"
     /\ ~env.homeErr /\ ~env.cwdErr
     /\ Target.err = "" /\ Target.node.kind = "file"
     /\ InsideRoot(Abs(path, env).path)
     /\ ~NotInAllowList(path)
     /\ Len(Target.node.content) <= fp.maxFileSize)
        => ReturnsFileOnDisk

\* C5 amended: for every path that filepath.Abs and the operating system
\* resolve to the same readable regular file, which no other process
\* changes during the call, whose absolute path contains no
\* denylisted substring and lies inside the home, working or temp directory
\* (the home and working directory lookups succeeding), with a non-empty
\* allowed extension and content length <= maxFileSize, ProcessFile returns
\* a FileContent with the original path, the bytes on disk and the stat size.
C5_ProcessFileSucceeds ==
    (/\ pc = "done"
     /\ Target.err = "" /\ Target.node.kind = "file" /\ Target.node.readable
     /\ ~env.homeErr /\ ~env.cwdErr
     /\ Lookup(fs, env, Abs(path, env).path) = Target
     /\ InsideRoot(Abs(path, env).path)
     /\ ~ContainsDenylisted(Abs(path, env).path)
     /\ Ext(path) # <<>> /\ ~NotInAllowList(path)
     /\ Len(Target.node.content) <= fp.maxFileSize)
        => ReturnsFileOnDisk

\* a relative path, not in clean form, whose file was returned
C5_Witness ==
    /\ pc = "done"
    /\ ret.err = NoError
    /\ ret.fc # <<>>
    /\ ~IsAbs(path)
    /\ ret.fc[1].Path = path
    /\ path # Clean(path)
    /\ ret.fc[1].Content # <<>>
    /\ ret.fc[1].Size = Len(ret.fc[1].Content)

(***************************************************************************)
(* C6                                                                      *)
(***************************************************************************)
ReadBeforeSize ==
    \E i, j \in 1..Len(trace) :
        i < j /\ trace[i] = "ReadFile(absPath)" /\ trace[j] = "size"

TooLargeReported(n) ==
    /\ Is(ret.err, "ErrFileTooLarge")
    /\ ret.fc = <<>>
    /\ ret.err.actual = n
    /\ ret.err.max = fp.maxFileSize
    /\ ReadBeforeSize

\* C6: when the path passed validation and the security check and the
\* content that ProcessFile read is longer than maxFileSize, the call fails
\* with ErrFileTooLarge, returns no FileContent and reports the length read
\* and the maximum; the comparison follows the read.  With the filesystem
\* left alone, the length reported is the length of the file on disk.
C6_FileTooLarge ==
    /\ (pc = "done" /\ (\E i \in 1..Len(trace) : trace[i] = "size")
           /\ Len(content) > fp.maxFileSize)
          => TooLargeReported(Len(content))
    /\ (/\ pc = "done" /\ writes = 0
        /\ ValidateFile(path, fp.allowedExtensions) = NoError
        /\ Abs(path, env).err = NoError
        /\ validatePathSecurity(Abs(path, env).path, env, fs) = NoError
        /\ OsReadFile(fs, env, Abs(path, env).path).err = ""
        /\ Len(OsReadFile(fs, env, Abs(path, env).path).content) > fp.maxFileSize)
          => TooLargeReported(Len(OsReadFile(fs, env, Abs(path, env).path).content))
    /\ (pc = "done" /\ Is(ret.err, "ErrFileTooLarge")) => ReadBeforeSize

\* a file one byte or more over the limit was read and refused
C6_Witness ==
    /\ pc = "done"
    /\ Is(ret.err, "ErrFileTooLarge")
    /\ ret.err.actual = Len(content)
    /\ ret.err.actual > ret.err.max
    /\ trace[Len(trace)] = "size"

(***************************************************************************)
(* C7                                                                      *)
(***************************************************************************)
DenotesDirectory == Target.err = "" /\ Target.node.kind = "dir"

\* C7 as stated: for every path that denotes a directory, ProcessFile fails
\* with ErrPathIsDirectory and never reads the path.  A directory without an
\* allowed extension, with a denylisted substring or outside the roots is
\* rejected earlier with another error.
C7_AsStated ==
    (pc = "done" /\ ~env.homeErr /\ ~env.cwdErr /\ DenotesDirectory)
        => (Is(ret.err, "ErrPathIsDirectory") /\ NoRead)

\* C7 amended: for every path that denotes a directory (no symbolic link
\* involved, and it stays a directory during the call), ProcessFile fails,
\* returns no FileContent and never reads the path; the error is
\* ErrPathIsDirectory when the path passes ValidateFile, the denylist and
\* root containment.
C7_DirectoryRejected ==
    (pc = "done" /\ DenotesDirectory)
        => /\ IsError(ret.err)
           /\ ret.fc = <<>>
           /\ NoRead
           /\ (/\ ValidateFile(path, fp.allowedExtensions) = NoError
               /\ Abs(path, env).err = NoError
               /\ SecurityPrecheck(Abs(path, env).path, env) = NoError)
                  => Is(ret.err, "ErrPathIsDirectory")

\* a directory with an allowed extension inside a root was refused at the stat
C7_Witness ==
    /\ pc = "done"
    /\ DenotesDirectory
    /\ Is(ret.err, "ErrPathIsDirectory")
    /\ trace[Len(trace)] = "Stat(absPath)"

(***************************************************************************)
(* C8                                                                      *)
(***************************************************************************)
\* C8 as stated: for every path whose extension is empty, ProcessFile fails
\* with ErrFileExtensionRequired.  The empty path has an empty extension
\* and fails with ErrFilePathRequired.
C8_AsStated ==
    (pc = "done" /\ EmptyExtension(path)) => Is(ret.err, "ErrFileExtensionRequired")

\* C8 amended: for every path that is not blank (empty or white space only)
\* and whose extension is empty, ProcessFile fails with
\* ErrFileExtensionRequired.
C8_ExtensionRequired ==
    (pc = "done" /\ EmptyExtension(path) /\ ~IsBlank(path))
        => /\ Is(ret.err, "ErrFileExtensionRequired")
           /\ ret.fc = <<>>

\* a path whose only dot is in a directory element
C8_Witness ==
    /\ pc = "done"
    /\ EmptyExtension(path)
    /\ Contains(path, Dot)
    /\ Is(ret.err, "ErrFileExtensionRequired")

(***************************************************************************)
(* C9                                                                      *)
(***************************************************************************)
\* C9: ValidateFile fails with ErrFilePathRequired exactly when the path is
\* empty or white space only, and then with that error alone, not with one
\* of the extension errors.
C9_PathRequired ==
    pc = "done"
        => /\ Is(ret.err, "ErrFilePathRequired") <=> IsBlank(path)
           /\ IsBlank(path) => ret.err.chain = <<"ErrFilePathRequired">>

\* a path of white space only
C9_Witness ==
    /\ pc = "done"
    /\ path # <<>>
    /\ IsBlank(path)
    /\ Is(ret.err, "ErrFilePathRequired")

(***************************************************************************)
(* C10                                                                     *)
(***************************************************************************)
LanguageTable ==
    { <<<<".", "g", "o">>, <<"g", "o">>>>, <<<<".", "p", "y">>, <<"p", "y", "t", "h", "o", "n">>>>, <<<<".", "j", "s">>, <<"j", "a", "v", "a", "s", "c", "r", "i", "p", "t">>>>,
      <<<<".", "t", "s">>, <<"t", "y", "p", "e", "s", "c", "r", "i", "p", "t">>>>, <<<<".", "j", "a", "v", "a">>, <<"j", "a", "v", "a">>>>, <<<<".", "c", "p", "p">>, <<"c", "p", "p">>>>,
      <<<<".", "c">>, <<"c">>>>, <<<<".", "h">>, <<"c">>>>, <<<<".", "c", "s">>, <<"c", "s", "h", "a", "r", "p">>>>, <<<<".", "p", "h", "p">>, <<"p", "h", "p">>>>,
      <<<<".", "r", "b">>, <<"r", "u", "b", "y">>>>, <<<<".", "r", "s">>, <<"r", "u", "s", "t">>>> }

IsCodeName(name) == \E p \in LanguageTable : p[1] = Ext(name)

LanguageOf(name) == (CHOOSE p \in LanguageTable : p[1] = Ext(name))[2]

\* C10: for a display name with a code extension, FenceContent returns
\* BEGIN <name>, a newline, the fence with the language of the extension, a
\* newline, the content, a newline, the fence, a newline and END <name>; the
\* fence appears twice when the content has no backtick.
C10_FencedCode ==
    (pc = "done" /\ IsCodeName(filename))
        => /\ out = <<"B", "E", "G", "I", "N", " ">> \o filename \o <<"\n", Backtick, Backtick, Backtick>> \o LanguageOf(filename)
                      \o <<"\n">> \o content \o <<"\n", Backtick, Backtick, Backtick, "\n", "E", "N", "D", " ">> \o filename
           /\ HasPrefix(out, <<"B", "E", "G", "I", "N", " ">> \o filename \o <<"\n">>)
           /\ HasSuffix(out, <<"\n", "E", "N", "D", " ">> \o filename)
           /\ (~Contains(content, <<Backtick>>) => Occurrences(out, Backticks) = 2)

\* a header file with content, fenced as C
C10_Witness ==
    /\ pc = "done"
    /\ Ext(filename) = <<".", "h">>
    /\ content # <<>>
    /\ Contains(out, <<Backtick, Backtick, Backtick, "c", "\n">> \o content \o <<"\n", Backtick, Backtick, Backtick>>)

(***************************************************************************)
(* A process that holds several FileProcessors and calls their operations  *)
(* one after the other.  calls keeps every completed call with its         *)
(* receiver, its arguments and what it returned.                           *)
(***************************************************************************)
Processors == { NewFileProcessor(0, <<>>), NewFileProcessor(1, << <<".", "c">> >>) }

CallContents == { <<>>, <<"a">> }

CallNames == { <<"f", ".", "g", "o">>, <<"f">> }

CallPath == <<"x", ".", "c">>

Call(op, receiver, arguments, returned) ==
    [op |-> op, fp |-> receiver, args |-> arguments, result |-> returned]

InitCalls ==
    /\ fp \in Processors
    /\ env \in {e \in Envs : ~e.homeErr /\ ~e.cwdErr /\ e.cwd = <<"/", "h", "/", "p">>}
    /\ fs \in { [l \in Leaves |-> IF l = EntryOf(CallPath, env) THEN n ELSE None] :
                  n \in {None, File(<<"a">>, TRUE)} }
    /\ path = <<>>
    /\ pc = "idle"
    /\ absPath = <<>>
    /\ content = <<>>
    /\ filename = <<>>
    /\ ret = NoResult
    /\ out = <<>>
    /\ trace = <<>>
    /\ writes = 0
    /\ NoCaller

\* a FenceContent whose output depends on the receiver's maxFileSize
Call_FenceContent_ReadsConfig ==
    /\ pc = "idle"
    /\ Len(calls) < MaxCalls
    /\ \E p \in Processors, c \in CallContents, n \in CallNames :
          /\ fp' = p
          /\ content' = c
          /\ filename' = n
          /\ out' = FenceContent(IF p.maxFileSize = 0 THEN <<>> ELSE c, n)
          /\ calls' = Append(calls, Call("FenceContent", p, <<c, n>>,
                                         FenceContent(IF p.maxFileSize = 0 THEN <<>> ELSE c, n)))
    /\ UNCHANGED <<env, fs, pc, path, absPath, ret, trace, writes>>
    /\ UNCHANGED <<builder, req, bpc, result, args, cpc, stdout, cliErr, threads>>

\* p.FenceContent(c, n)
Call_FenceContent ==
    /\ pc = "idle"
    /\ Len(calls) < MaxCalls
    /\ \E p \in Processors, c \in CallContents, n \in CallNames :
          /\ fp' = p
          /\ content' = c
          /\ filename' = n
          /\ out' = FenceContent(c, n)
          /\ calls' = Append(calls, Call("FenceContent", p, <<c, n>>, FenceContent(c, n)))
    /\ UNCHANGED <<env, fs, pc, path, absPath, ret, trace, writes>>
    /\ UNCHANGED <<builder, req, bpc, result, args, cpc, stdout, cliErr, threads>>

\* p.ValidateFile(CallPath)
Call_ValidateFile ==
    /\ pc = "idle"
    /\ Len(calls) < MaxCalls
    /\ \E p \in Processors :
          /\ fp' = p
          /\ path' = CallPath
          /\ ret' = Failure(ValidateFile(CallPath, p.allowedExtensions))
          /\ calls' = Append(calls, Call("ValidateFile", p, <<CallPath>>,
                                         ValidateFile(CallPath, p.allowedExtensions)))
    /\ UNCHANGED <<env, fs, pc, absPath, content, filename, out, trace, writes>>
    /\ UNCHANGED <<builder, req, bpc, result, args, cpc, stdout, cliErr, threads>>

\* p.ProcessFile(CallPath) begins
Call_ProcessFile ==
    /\ pc = "idle"
    /\ Len(calls) < MaxCalls
    /\ \E p \in Processors : fp' = p
    /\ path' = CallPath
    /\ pc' = "start"
    /\ absPath' = <<>>
    /\ content' = <<>>
    /\ ret' = NoResult
    /\ trace' = <<>>
    /\ UNCHANGED <<env, fs, filename, out, writes>>
    /\ UNCHANGED callerVars

\* ProcessFile returns to the process
Return_ProcessFile ==
    /\ pc = "done"
    /\ pc' = "idle"
    /\ calls' = Append(calls, Call("ProcessFile", fp, <<path>>, ret))
    /\ UNCHANGED <<fp, env, fs, path, absPath, content, filename, ret, out, trace, writes>>
    /\ UNCHANGED <<builder, req, bpc, result, args, cpc, stdout, cliErr, threads>>

NextCalls ==
    \/ Call_FenceContent
    \/ Call_ValidateFile
    \/ Call_ProcessFile
    \/ ProcessFile_Validate
    \/ ProcessFile_SecurityStat
    \/ ProcessFile_ReadFile
    \/ ProcessFile_Stat
    \/ Return_ProcessFile

SpecCalls == InitCalls /\ [][NextCalls]_vars

(***************************************************************************)
(* FileContent.Validate                                                    *)
(***************************************************************************)
FileContentValidate(fc) ==
    IF TrimSpace(fc.Path) = <<>> THEN NewError("ErrFilePathRequired")
    ELSE IF Len(fc.Content) = 0 THEN NewError("ErrFileContentRequired")
    ELSE NoError

(***************************************************************************)
(* strings.Join and encoding/base64                                        *)
(***************************************************************************)
RECURSIVE StringsJoin(_, _)
\* strings.Join(parts, sep)
StringsJoin(parts, sep) ==
    IF parts = <<>> THEN <<>>
    ELSE IF Len(parts) = 1 THEN Head(parts)
    ELSE Head(parts) \o sep \o StringsJoin(Tail(parts), sep)

\* the alphabet of base64.StdEncoding; a character stands for its index - 1
Base64Alphabet ==
    <<"A", "B", "C", "D", "E", "F", "G", "H", "I", "J", "K", "L", "M", "N", "O", "P", "Q", "R", "S", "T", "U", "V", "W", "X", "Y", "Z", "a", "b", "c", "d", "e", "f", "g", "h", "i", "j", "k", "l", "m", "n", "o", "p", "q", "r", "s", "t", "u", "v", "w", "x", "y", "z", "0", "1", "2", "3", "4", "5", "6", "7", "8", "9", "+", "/">>

Base64Value(c) == (CHOOSE i \in 1..64 : Base64Alphabet[i] = c) - 1

IsBase64Char(c) == \E i \in 1..64 : Base64Alphabet[i] = c

\* the printable bytes 32..126, which the model writes as characters
PrintableBytes ==
    <<" ", "!">> \o <<"\"">> \o <<"#", "$", "%", "&", "'", "(", ")", "*", "+", ",", "-", ".", "/", "0", "1", "2", "3", "4", "5", "6", "7", "8", "9", ":", ";", "<", "=", ">", "?", "@", "A", "B", "C", "D", "E", "F", "G", "H", "I", "J", "K", "L", "M", "N", "O", "P", "Q", "R", "S", "T", "U", "V", "W", "X", "Y", "Z", "[">>
    \o <<"\\">> \o <<"]", "^", "_", Backtick, "a", "b", "c", "d", "e", "f", "g", "h", "i", "j", "k", "l", "m", "n", "o", "p", "q", "r", "s", "t", "u", "v", "w", "x", "y", "z", "{", "|", "}", "~">>

\* the byte b of a decoded image; bytes that do not print keep their number
ByteOf(b) == IF b \in 32..126 THEN PrintableBytes[b - 31] ELSE ToString(b)

\* the bytes of one group of four characters; nil if the group is malformed
DecodeQuantum(q, last) ==
    LET pad == IF q[3] = "=" /\ q[4] = "=" THEN 2 ELSE IF q[4] = "=" THEN 1 ELSE 0
        ok == /\ \A i \in 1..(4 - pad) : IsBase64Char(q[i])
              /\ (pad > 0 => last)
        v(i) == IF i <= 4 - pad THEN Base64Value(q[i]) ELSE 0
        n == v(1) * 262144 + v(2) * 4096 + v(3) * 64 + v(4)
        bytes == << ByteOf(n \div 65536), ByteOf((n \div 256) % 256), ByteOf(n % 256) >>
    IN IF ok THEN [ok |-> TRUE, bytes |-> SubSeq(bytes, 1, 3 - pad)]
       ELSE [ok |-> FALSE, bytes |-> <<>>]

RECURSIVE DecodeString(_)
\* base64.StdEncoding.DecodeString(s): padded groups of four characters
DecodeString(s) ==
    IF s = <<>> THEN [bytes |-> <<>>, err |-> NoError]
    ELSE IF Len(s) < 4
    THEN [bytes |-> <<>>, err |-> NewError("base64.CorruptInputError")]
    ELSE LET q == DecodeQuantum(SubSeq(s, 1, 4), Len(s) = 4)
             rest == DecodeString(SubSeq(s, 5, Len(s)))
         IN IF ~q.ok \/ IsError(rest.err)
            THEN [bytes |-> <<>>, err |-> NewError("base64.CorruptInputError")]
            ELSE [bytes |-> q.bytes \o rest.bytes, err |-> NoError]

(***************************************************************************)
(* types.go: BuildRequest, Prompt, CLIFlags                                *)
(***************************************************************************)
\* a BuildRequest.Validate that compares the untrimmed prompt
BuildRequestValidate_NoTrim(r) ==
    IF r.Prompt = <<>> THEN NewError("ErrPromptRequired") ELSE NoError

\* BuildRequest.Validate
BuildRequestValidate(r) ==
    IF TrimSpace(r.Prompt) = <<>> THEN NewError("ErrPromptRequired") ELSE NoError

\* CLIFlags.Validate
CLIFlagsValidate(f) ==
    IF TrimSpace(f.Prompt) = <<>> THEN NewError("ErrPromptRequired") ELSE NoError

\* CLIFlags.ToBuildRequest: the image is decoded, every other field is copied
ToBuildRequest(f) ==
    LET decoded == DecodeString(f.Image)
    IN IF f.Image # <<>> /\ IsError(decoded.err)
       THEN [req |-> NoRequest, err |-> Wrap("failed to decode image", decoded.err)]
       ELSE [req |-> [Prompt |-> f.Prompt, File |-> f.File, Task |-> f.Task,
                      SystemMessage |-> f.SystemMessage, Guidelines |-> f.Guidelines,
                      Image |-> IF f.Image # <<>> THEN decoded.bytes ELSE <<>>,
                      OutputFormat |-> f.OutputFormat],
             err |-> NoError]

\* a Prompt.String that leaves out an empty user prompt
PromptString_SkipEmptyUserPrompt(p) ==
    StringsJoin(
        (IF p.SystemMessage # <<>> THEN << p.SystemMessage >> ELSE <<>>)
        \o (IF p.Guidelines # <<>> THEN << <<"G", "u", "i", "d", "e", "l", "i", "n", "e", "s", ":">>, p.Guidelines >> ELSE <<>>)
        \o (IF p.FileContent # <<>> THEN << <<"F", "i", "l", "e", " ", "c", "o", "n", "t", "e", "n", "t", ":">>, p.FileContent >> ELSE <<>>)
        \o (IF p.UserPrompt # <<>> THEN << p.UserPrompt >> ELSE <<>>),
        <<"\n", "\n">>)

\* Prompt.String
PromptString(p) ==
    StringsJoin(
        (IF p.SystemMessage # <<>> THEN << p.SystemMessage >> ELSE <<>>)
        \o (IF p.Guidelines # <<>> THEN << <<"G", "u", "i", "d", "e", "l", "i", "n", "e", "s", ":">>, p.Guidelines >> ELSE <<>>)
        \o (IF p.FileContent # <<>> THEN << <<"F", "i", "l", "e", " ", "c", "o", "n", "t", "e", "n", "t", ":">>, p.FileContent >> ELSE <<>>)
        \o << p.UserPrompt >>,
        <<"\n", "\n">>)

(***************************************************************************)
(* builder.go: Builder                                                     *)
(***************************************************************************)
\* New(fp): no presets; the processor of the builder is fp
New == [systemPresets |-> <<>>]

\* an AddSystemPreset that keeps the message a name already has
AddSystemPreset_KeepsFirst(b, name, message) ==
    IF TrimSpace(name) = <<>>
    THEN [builder |-> b, err |-> NewError("preset name cannot be empty")]
    ELSE [builder |-> [systemPresets |-> b.systemPresets @@ (name :> message)],
          err |-> NoError]

\* Builder.AddSystemPreset(name, message) on the builder b
AddSystemPreset(b, name, message) ==
    IF TrimSpace(name) = <<>>
    THEN [builder |-> b, err |-> NewError("preset name cannot be empty")]
    ELSE [builder |-> [systemPresets |-> (name :> message) @@ b.systemPresets],
          err |-> NoError]

\* a system message in which the preset of the task comes before the literal
SystemMessageOf_PresetFirst(b, r) ==
    IF r.Task # <<>> /\ r.Task \in DOMAIN b.systemPresets
    THEN b.systemPresets[r.Task]
    ELSE r.SystemMessage

\* the system message BuildPrompt gives the prompt
SystemMessageOf(b, r) ==
    IF r.SystemMessage # <<>> THEN r.SystemMessage
    ELSE IF r.Task # <<>> /\ r.Task \in DOMAIN b.systemPresets
    THEN b.systemPresets[r.Task]
    ELSE <<>>

\* the Prompt that BuildPrompt assembles, with the fenced file content
NewPrompt(b, r, fileContent) ==
    [SystemMessage |-> SystemMessageOf(b, r), UserPrompt |-> r.Prompt,
     FileContent |-> fileContent, Guidelines |-> r.Guidelines]

\* BuildPrompt up to its call of ProcessFile
BuildPrompt_Begin ==
    /\ bpc = "start"
    /\ LET verr == BuildRequestValidate(req)
       IN IF IsError(verr)
          THEN /\ result' = [prompt |-> <<>>,
                             err |-> Wrap("invalid build request", verr)]
               /\ bpc' = "done"
               /\ UNCHANGED <<pc, path>>
          ELSE IF req.File # <<>>
          THEN /\ path' = req.File
               /\ pc' = "start"
               /\ bpc' = "file"
               /\ result' = result
          ELSE /\ result' = [prompt |-> << NewPrompt(builder, req, <<>>) >>,
                             err |-> NoError]
               /\ bpc' = "done"
               /\ UNCHANGED <<pc, path>>
    /\ UNCHANGED <<fp, env, fs, absPath, content, filename, ret, out, trace, writes>>
    /\ UNCHANGED <<calls, builder, req, args, cpc, stdout, cliErr, threads>>

\* a BuildPrompt that goes on with an empty file content when ProcessFile fails
BuildPrompt_Return_EmptyContent ==
    /\ bpc = "file"
    /\ pc = "done"
    /\ IF IsError(ret.err)
       THEN /\ result' = [prompt |-> << NewPrompt(builder, req, <<>>) >>, err |-> NoError]
            /\ UNCHANGED <<filename, out>>
       ELSE /\ filename' = ret.fc[1].Path
            /\ out' = FenceContent(ret.fc[1].Content, ret.fc[1].Path)
            /\ result' = [prompt |-> << NewPrompt(builder, req, out') >>, err |-> NoError]
    /\ calls' = Append(calls, Call("ProcessFile", fp, <<path>>, ret))
    /\ bpc' = "done"
    /\ pc' = "idle"
    /\ UNCHANGED <<fp, env, fs, path, absPath, content, ret, trace, writes>>
    /\ UNCHANGED <<builder, req, args, cpc, stdout, cliErr, threads>>

\* a BuildPrompt that reports the failure of ProcessFile without wrapping it
BuildPrompt_Return_OpaqueError ==
    /\ bpc = "file"
    /\ pc = "done"
    /\ IF IsError(ret.err)
       THEN /\ result' = [prompt |-> <<>>, err |-> NewError("failed to process file")]
            /\ UNCHANGED <<filename, out>>
       ELSE /\ filename' = ret.fc[1].Path
            /\ out' = FenceContent(ret.fc[1].Content, ret.fc[1].Path)
            /\ result' = [prompt |-> << NewPrompt(builder, req, out') >>, err |-> NoError]
    /\ calls' = Append(calls, Call("ProcessFile", fp, <<path>>, ret))
    /\ bpc' = "done"
    /\ pc' = "idle"
    /\ UNCHANGED <<fp, env, fs, path, absPath, content, ret, trace, writes>>
    /\ UNCHANGED <<builder, req, args, cpc, stdout, cliErr, threads>>

\* BuildPrompt from the return of ProcessFile: the error is wrapped, or the
\* content is fenced under the returned path
BuildPrompt_Return ==
    /\ bpc = "file"
    /\ pc = "done"
    /\ IF IsError(ret.err)
       THEN /\ result' = [prompt |-> <<>>, err |-> Wrap("failed to process file", ret.err)]
            /\ UNCHANGED <<filename, out>>
       ELSE /\ filename' = ret.fc[1].Path
            /\ out' = FenceContent(ret.fc[1].Content, ret.fc[1].Path)
            /\ result' = [prompt |-> << NewPrompt(builder, req, out') >>, err |-> NoError]
    /\ calls' = Append(calls, Call("ProcessFile", fp, <<path>>, ret))
    /\ bpc' = "done"
    /\ pc' = "idle"
    /\ UNCHANGED <<fp, env, fs, path, absPath, content, ret, trace, writes>>
    /\ UNCHANGED <<builder, req, args, cpc, stdout, cliErr, threads>>

(***************************************************************************)
(* cli.go: ParseFlags, RunCLI, formatAndWriteOutput                        *)
(***************************************************************************)
defaultMaxFileSize == 1024 * 1024

\* CLIFlags{}: every flag at its default
NoFlags ==
    [Prompt |-> <<>>, File |-> <<>>, Task |-> <<>>, SystemMessage |-> <<>>,
     Guidelines |-> <<>>, Image |-> <<>>, OutputFormat |-> <<>>]

\* the field of CLIFlags that a flag name is bound to; empty if undefined
FlagField(name) ==
    CASE name \in { <<"p">>, <<"p", "r", "o", "m", "p", "t">> } -> "Prompt"
      [] name \in { <<"f">>, <<"f", "i", "l", "e">> } -> "File"
      [] name \in { <<"t">>, <<"t", "a", "s", "k">> } -> "Task"
      [] name \in { <<"s", "y", "s">>, <<"s", "y", "s", "t", "e", "m">> } -> "SystemMessage"
      [] name \in { <<"g">>, <<"g", "u", "i", "d", "e", "l", "i", "n", "e", "s">> } -> "Guidelines"
      [] name \in { <<"o">>, <<"o", "u", "t", "p", "u", "t">> } -> "OutputFormat"
      [] name \in { <<"i", "m", "g">>, <<"i", "m", "a", "g", "e">> } -> "Image"
      [] OTHER -> ""

\* position of the first = in s, 0 if there is none
IndexEquals(s) ==
    IF \E i \in 1..Len(s) : s[i] = "="
    THEN CHOOSE i \in 1..Len(s) : s[i] = "=" /\ \A j \in 1..(i - 1) : s[j] # "="
    ELSE 0

SetFlag(f, field, value) == [f EXCEPT ![field] = value]

RECURSIVE FlagSetParse(_, _)
\* flag.FlagSet.Parse with ExitOnError: exit is the status of os.Exit, or -1
\* when parsing returns
FlagSetParse(arguments, f) ==
    IF arguments = <<>> THEN [flags |-> f, exit |-> -1]
    ELSE LET s == Head(arguments)
             minuses == IF Len(s) >= 2 /\ s[2] = "-" THEN 2 ELSE 1
             rest == SubSeq(s, minuses + 1, Len(s))
             eq == IndexEquals(rest)
             name == IF eq > 0 THEN SubSeq(rest, 1, eq - 1) ELSE rest
         IN IF Len(s) < 2 \/ s[1] # "-" THEN [flags |-> f, exit |-> -1]
            ELSE IF s = <<"-", "-">> THEN [flags |-> f, exit |-> -1]
            ELSE IF rest = <<>> \/ rest[1] = "-" \/ rest[1] = "="
            THEN [flags |-> f, exit |-> 2]
            ELSE IF FlagField(name) = ""
            THEN [flags |-> f, exit |-> IF name \in { <<"h">>, <<"h", "e", "l", "p">> } THEN 0 ELSE 2]
            ELSE IF eq > 0
            THEN FlagSetParse(Tail(arguments),
                              SetFlag(f, FlagField(name), SubSeq(rest, eq + 1, Len(rest))))
            ELSE IF Len(arguments) < 2 THEN [flags |-> f, exit |-> 2]
            ELSE FlagSetParse(Tail(Tail(arguments)),
                              SetFlag(f, FlagField(name), arguments[2]))

\* ParseFlags(args)
ParseFlags(arguments) ==
    LET parsed == FlagSetParse(arguments, NoFlags)
    IN IF parsed.exit # -1 THEN [flags |-> NoFlags, err |-> NoError, exit |-> parsed.exit]
       ELSE IF IsError(CLIFlagsValidate(parsed.flags))
       THEN [flags |-> NoFlags, exit |-> -1,
             err |-> Wrap("invalid flags", CLIFlagsValidate(parsed.flags))]
       ELSE [flags |-> parsed.flags, err |-> NoError, exit |-> -1]

\* the string s as encoding/json writes it
RECURSIVE JSONEscape(_)
JSONEscape(s) ==
    IF s = <<>> THEN <<>>
    ELSE (CASE Head(s) = "\"" -> <<"\\", "\"">>
            [] Head(s) = "\\" -> <<"\\", "\\">>
            [] Head(s) = "\n" -> <<"\\", "n">>
            [] Head(s) = "\t" -> <<"\\", "t">>
            [] Head(s) = "<" -> <<"\\">> \o <<"u", "0", "0", "3", "c">>
            [] Head(s) = ">" -> <<"\\">> \o <<"u", "0", "0", "3", "e">>
            [] Head(s) = "&" -> <<"\\">> \o <<"u", "0", "0", "2", "6">>
            [] OTHER -> << Head(s) >>)
         \o JSONEscape(Tail(s))

JSONString(s) == <<"\"">> \o JSONEscape(s) \o <<"\"">>

\* json.MarshalIndent of the four fields, keys sorted, indented by two spaces
MarshalIndent(prompt) ==
    Concat(<< <<"{", "\n", " ", " ">>, JSONString(<<"f", "i", "l", "e", "_", "c", "o", "n", "t", "e", "n", "t">>), <<":", " ">>, JSONString(prompt.FileContent),
              <<",", "\n", " ", " ">>, JSONString(<<"g", "u", "i", "d", "e", "l", "i", "n", "e", "s">>), <<":", " ">>, JSONString(prompt.Guidelines),
              <<",", "\n", " ", " ">>, JSONString(<<"s", "y", "s", "t", "e", "m", "_", "m", "e", "s", "s", "a", "g", "e">>), <<":", " ">>,
              JSONString(prompt.SystemMessage),
              <<",", "\n", " ", " ">>, JSONString(<<"u", "s", "e", "r", "_", "p", "r", "o", "m", "p", "t">>), <<":", " ">>, JSONString(prompt.UserPrompt),
              <<"\n", "}">> >>)

\* the two characters \ and n that the format strings of cli.go end a line with
BackslashN == <<"\\", "n">>

\* formatAndWriteOutput: what it writes for the format and the prompt
FormatOutput(format, prompt) ==
    IF format = <<"j", "s", "o", "n">> THEN MarshalIndent(prompt) \o BackslashN
    ELSE IF format = <<"t", "e", "x", "t">> THEN PromptString(prompt) \o BackslashN
    ELSE Concat(<< <<"#", " ", "G", "e", "n", "e", "r", "a", "t", "e", "d", " ", "P", "r", "o", "m", "p", "t">>, BackslashN, BackslashN,
                   Backticks, BackslashN, PromptString(prompt), BackslashN,
                   Backticks, BackslashN >>)

codingPreset ==
    <<"Y", "o", "u", " ", "a", "r", "e", " ", "a", "n", " ", "e", "x", "p", "e", "r", "t", " ", "s", "o", "f", "t", "w", "a", "r", "e", " ", "d", "e", "v", "e", "l", "o", "p", "e", "r", ".", " ", "W", "r", "i", "t", "e", " ", "c", "l", "e", "a", "n", ",", " ", "e", "f", "f", "i", "c", "i", "e", "n", "t", ",", " ", "a", "n", "d", " ", "w", "e", "l", "l", "-", "d", "o", "c", "u", "m", "e", "n", "t", "e", "d", " ", "c", "o", "d", "e", ".">>

analysisPreset ==
    <<"Y", "o", "u", " ", "a", "r", "e", " ", "a", "n", " ", "e", "x", "p", "e", "r", "t", " ", "c", "o", "d", "e", " ", "a", "n", "a", "l", "y", "s", "t", ".", " ", "P", "r", "o", "v", "i", "d", "e", " ", "d", "e", "t", "a", "i", "l", "e", "d", " ", "a", "n", "a", "l", "y", "s", "i", "s", " ", "a", "n", "d", " ", "i", "n", "s", "i", "g", "h", "t", "s", ".">>

documentationPreset ==
    <<"Y", "o", "u", " ", "a", "r", "e", " ", "a", "n", " ", "e", "x", "p", "e", "r", "t", " ", "t", "e", "c", "h", "n", "i", "c", "a", "l", " ", "w", "r", "i", "t", "e", "r", ".", " ", "C", "r", "e", "a", "t", "e", " ", "c", "l", "e", "a", "r", " ", "a", "n", "d", " ", "c", "o", "m", "p", "r", "e", "h", "e", "n", "s", "i", "v", "e", " ", "d", "o", "c", "u", "m", "e", "n", "t", "a", "t", "i", "o", "n", ".">>

\* the builder of RunCLI after its three AddSystemPreset calls
CLIBuilder ==
    LET coding == AddSystemPreset(New, <<"c", "o", "d", "i", "n", "g">>, codingPreset)
        analysis == AddSystemPreset(coding.builder, <<"a", "n", "a", "l", "y", "s", "i", "s">>, analysisPreset)
        documentation ==
            AddSystemPreset(analysis.builder, <<"d", "o", "c", "u", "m", "e", "n", "t", "a", "t", "i", "o", "n">>, documentationPreset)
    IN [builder |-> documentation.builder,
        err |-> IF IsError(coding.err)
                THEN Wrap("failed to add coding preset", coding.err)
                ELSE IF IsError(analysis.err)
                THEN Wrap("failed to add analysis preset", analysis.err)
                ELSE IF IsError(documentation.err)
                THEN Wrap("failed to add documentation preset", documentation.err)
                ELSE NoError]

\* RunCLI up to its call of BuildPrompt
RunCLI_Begin ==
    /\ cpc = "start"
    /\ LET parsed == ParseFlags(args)
           made == CLIBuilder
           converted == ToBuildRequest(parsed.flags)
           returns(e) == /\ cliErr' = e
                         /\ cpc' = "done"
                         /\ UNCHANGED <<fp, builder, req, bpc, threads>>
       IN IF \E i \in 1..Len(args) : args[i] \in { <<"-", "h">>, <<"-", "-", "h", "e", "l", "p">> }
          THEN returns(NoError)
          ELSE IF parsed.exit # -1
          THEN /\ cpc' = "exited"
               /\ UNCHANGED <<fp, builder, req, bpc, cliErr, threads>>
          ELSE IF IsError(parsed.err)
          THEN returns(Wrap("failed to parse flags", parsed.err))
          ELSE IF IsError(made.err)
          THEN returns(made.err)
          ELSE IF IsError(converted.err)
          THEN /\ cliErr' = Wrap("failed to convert flags to build request", converted.err)
               /\ cpc' = "done"
               /\ fp' = NewFileProcessor(defaultMaxFileSize, << <<".", "p", "n", "g">> >>)
               /\ builder' = made.builder
               /\ UNCHANGED <<req, bpc, threads>>
          ELSE /\ fp' = NewFileProcessor(defaultMaxFileSize, << <<".", "p", "n", "g">> >>)
               /\ builder' = made.builder
               /\ req' = converted.req
               /\ bpc' = "start"
               /\ cpc' = "build"
               /\ cliErr' = cliErr
    /\ UNCHANGED <<env, fs, pc, path, absPath, content, filename, ret, out, trace, writes>>
    /\ UNCHANGED <<calls, result, args, stdout, threads>>

\* RunCLI from the return of BuildPrompt
RunCLI_Finish ==
    /\ cpc = "build"
    /\ bpc = "done"
    /\ IF IsError(result.err)
       THEN /\ cliErr' = Wrap("failed to build prompt", result.err)
            /\ stdout' = stdout
       ELSE /\ cliErr' = NoError
            /\ stdout' = stdout \o FormatOutput(req.OutputFormat, result.prompt[1])
    /\ cpc' = "done"
    /\ UNCHANGED <<fp, env, fs, pc, path, absPath, content, filename, ret, out, trace, writes>>
    /\ UNCHANGED <<calls, builder, req, bpc, result, args, threads>>

(***************************************************************************)
(* A process that calls BuildPrompt on a builder of its own, or runs the   *)
(* command line.                                                           *)
(***************************************************************************)
BuildProcessors == { NewFileProcessor(1, << <<".", "c">>, <<".", "t">> >>), NewFileProcessor(0, << <<".", "c">> >>) }

Builders == { New, AddSystemPreset(New, <<"c", "o", "d", "i", "n", "g">>, <<"C">>).builder }

BuildRequests ==
    { [Prompt |-> p, File |-> f, Task |-> t, SystemMessage |-> s, Guidelines |-> g,
       Image |-> i, OutputFormat |-> <<>>] :
        p \in { <<>>, <<" ", "\t">>, <<"q">> },
        f \in { <<>>, <<"x", ".", "c">>, <<"x", ".", "t">>, <<"x">> },
        t \in { <<>>, <<"c", "o", "d", "i", "n", "g">>, <<"z", "z">> },
        s \in { <<>>, <<"s">> },
        g \in { <<>>, <<"g">> },
        i \in { <<>>, <<"i", "m", "g">> } }

ArgLists ==
    { << <<"-", "p">>, <<"q">> >>,
      << <<"-", "p">>, <<"q">>, <<"-", "f">>, <<"x", ".", "g", "o">> >>,
      << <<"-", "p">>, <<"q">>, <<"-", "f">>, <<"x", ".", "p", "n", "g">> >>,
      << <<"-", "p">>, <<"q">>, <<"-", "f">>, <<"x", ".", "g", "o">>, <<"-", "o">>, <<"t", "e", "x", "t">> >>,
      << <<"-", "p">>, <<"q">>, <<"-", "f">>, <<"x", ".", "g", "o">>, <<"-", "o">>, <<"j", "s", "o", "n">> >>,
      << <<"-", "-", "p", "r", "o", "m", "p", "t">>, <<"q">>, <<"-", "-", "f", "i", "l", "e">>, <<"x", ".", "p", "n", "g">>, <<"-", "-", "o", "u", "t", "p", "u", "t">>, <<"t", "e", "x", "t">> >>,
      << <<"-", "f">>, <<"x", ".", "g", "o">> >>,
      << <<"-", "p">>, <<" ">> >>,
      << <<"-", "p">>, <<"q">>, <<"-", "i", "m", "g">>, <<"a", "W", "1", "n">> >>,
      << <<"-", "p">>, <<"q">>, <<"-", "i", "m", "g">>, <<"Q">> >>,
      << <<"-", "p">>, <<"q">>, <<"-", "t">>, <<"c", "o", "d", "i", "n", "g">> >>,
      << <<"-", "p">>, <<"q">>, <<"-", "t">>, <<"z", "z">>, <<"-", "o">>, <<"t", "e", "x", "t">> >>,
      << <<"-", "p">>, <<"q">>, <<"-", "s", "y", "s">>, <<"s">>, <<"-", "g">>, <<"g">>, <<"-", "o">>, <<"j", "s", "o", "n">> >>,
      << <<"-", "p", "=", "q">>, <<"-", "o", "=", "t", "e", "x", "t">> >>,
      << <<"-", "p">>, <<"q">>, <<"r", "e", "s", "t">>, <<"-", "f">>, <<"x", ".", "g", "o">> >>,
      << <<"-", "p">>, <<"q">>, <<"-", "h">> >>,
      << <<"-", "p">>, <<"q">>, <<"-", "x">>, <<"1">> >>,
      << <<"-", "p">> >> }

\* the file that the command line names with -f or --file, if it gets that far
FileArgument(arguments) == FlagSetParse(arguments, NoFlags).flags.File

BuildNodes ==
    { None, Dir, File(<<>>, TRUE), File(<<"a">>, TRUE), File(<<"a", "b">>, TRUE),
      File(<<"a">>, FALSE) }

\* the filesystems that differ in the entry the path p names
BuildFilesystems(p, e) ==
    { [l \in Leaves |-> IF l = EntryOf(p, e) THEN n ELSE None] : n \in BuildNodes }

IdleProcessFile ==
    /\ env \in {e \in Envs : ~e.homeErr /\ ~e.cwdErr /\ e.cwd = <<"/", "h", "/", "p">>}
    /\ pc = "idle"
    /\ path = <<>>
    /\ absPath = <<>>
    /\ content = <<>>
    /\ filename = <<>>
    /\ ret = NoResult
    /\ out = <<>>
    /\ trace = <<>>
    /\ writes = 0
    /\ calls = <<>>
    /\ result = NoBuildResult
    /\ stdout = <<>>
    /\ cliErr = NoError
    /\ threads = <<>>

\* b.BuildPrompt(req) is called on a builder b made with New(fp)
InitBuildPrompt ==
    /\ IdleProcessFile
    /\ fp \in BuildProcessors
    /\ builder \in Builders
    /\ req \in BuildRequests
    /\ fs \in BuildFilesystems(req.File, env)
    /\ bpc = "start"
    /\ args = <<>>
    /\ cpc = "idle"

\* RunCLI(args, output) is called with an empty output buffer
InitRunCLI ==
    /\ IdleProcessFile
    /\ fp = NewFileProcessor(0, <<>>)
    /\ builder = New
    /\ req = NoRequest
    /\ args \in ArgLists
    /\ fs \in BuildFilesystems(FileArgument(args), env)
    /\ bpc = "idle"
    /\ cpc = "start"

InitBuild == InitBuildPrompt \/ InitRunCLI

NextBuild ==
    \/ RunCLI_Begin
    \/ BuildPrompt_Begin
    \/ ProcessFile_Validate
    \/ ProcessFile_SecurityStat
    \/ ProcessFile_ReadFile
    \/ ProcessFile_Stat
    \/ BuildPrompt_Return
    \/ RunCLI_Finish

SpecBuild == InitBuild /\ [][NextBuild]_vars

(***************************************************************************)
(* Prompt.String taken alone                                               *)
(***************************************************************************)
FieldChars == {"x", "\n"}

Fields == SeqsUpTo(FieldChars, MaxFieldLen)

Prompts ==
    { [SystemMessage |-> s, UserPrompt |-> u, FileContent |-> f, Guidelines |-> g] :
        s \in Fields, u \in Fields, f \in Fields, g \in Fields }

InitPromptString ==
    /\ fp = NewFileProcessor(0, <<>>)
    /\ env \in {e \in Envs : ~e.homeErr /\ ~e.cwdErr /\ e.cwd = <<"/", "h", "/", "p">>}
    /\ fs = [l \in Leaves |-> None]
    /\ path = <<>>
    /\ pc = "start"
    /\ absPath = <<>>
    /\ content = <<>>
    /\ filename = <<>>
    /\ ret = NoResult
    /\ out = <<>>
    /\ trace = <<>>
    /\ writes = 0
    /\ calls = <<>>
    /\ builder = New
    /\ req = NoRequest
    /\ bpc = "idle"
    /\ \E p \in Prompts : result = [prompt |-> << p >>, err |-> NoError]
    /\ args = <<>>
    /\ cpc = "idle"
    /\ stdout = <<>>
    /\ cliErr = NoError
    /\ threads = <<>>

\* result.Prompt.String()
PromptStringCall ==
    /\ pc = "start"
    /\ out' = PromptString(result.prompt[1])
    /\ trace' = <<"Prompt.String">>
    /\ pc' = "done"
    /\ UNCHANGED <<fp, env, fs, path, absPath, content, filename, ret, writes>>
    /\ UNCHANGED callerVars

SpecPromptString == InitPromptString /\ [][PromptStringCall]_vars

(***************************************************************************)
(* Goroutines that call one FileProcessor concurrently.  Each call keeps   *)
(* its arguments and locals in its own record; a step of a call is one of  *)
(* the steps of ProcessFile above, or the whole of ValidateFile or         *)
(* FenceContent, which make no system call.                                *)
(***************************************************************************)
Goroutines == {1, 2}

GoPaths == { <<"x", ".", "c">>, <<"x", ".", "t">>, <<"/", "h", "/", "x", ".", "c">>, <<"x">> }

\* the locals of a call that has not started
NewCall(op, p, c, n) ==
    [op |-> op, pc |-> "start", path |-> p, absPath |-> <<>>, content |-> c,
     filename |-> n, ret |-> NoResult, out |-> <<>>]

GoCalls ==
    {NewCall("ProcessFile", p, <<>>, <<>>) : p \in GoPaths}
    \cup {NewCall("ValidateFile", p, <<>>, <<>>) : p \in GoPaths}
    \cup {NewCall("FenceContent", <<>>, c, n) : c \in CallContents, n \in CallNames}

\* the arguments of a call
Arguments(l) == <<l.path, l.content, l.filename>>

\* one step of ProcessFile on the locals l of the call
ProcessFileStep(l, f, e, fsys) ==
    IF l.pc = "start"
    THEN LET verr == ValidateFile(l.path, f.allowedExtensions)
             abs == Abs(l.path, e)
             serr == SecurityPrecheck(abs.path, e)
         IN IF IsError(verr)
            THEN [l EXCEPT !.ret = Failure(Wrap("file validation failed", verr)),
                           !.pc = "done"]
            ELSE IF IsError(abs.err)
            THEN [l EXCEPT !.ret = Failure(Wrap("invalid file path", abs.err)),
                           !.pc = "done"]
            ELSE IF IsError(serr)
            THEN [l EXCEPT !.ret = Failure(Wrap("security validation failed", serr)),
                           !.absPath = abs.path, !.pc = "done"]
            ELSE [l EXCEPT !.absPath = abs.path, !.pc = "stat"]
    ELSE IF l.pc = "stat"
    THEN LET serr == CheckStat(l.absPath, e, fsys)
         IN IF IsError(serr)
            THEN [l EXCEPT !.ret = Failure(Wrap("security validation failed", serr)),
                           !.pc = "done"]
            ELSE [l EXCEPT !.pc = "read"]
    ELSE IF l.pc = "read"
    THEN LET rd == OsReadFile(fsys, e, l.absPath)
         IN IF rd.err # ""
            THEN [l EXCEPT !.ret = Failure(Wrap("failed to read file", NewError(rd.err))),
                           !.pc = "done"]
            ELSE IF SizeExceeds(rd.content, f.maxFileSize)
            THEN [l EXCEPT !.ret = Failure(FileTooLarge(Len(rd.content), f.maxFileSize)),
                           !.content = rd.content, !.pc = "done"]
            ELSE [l EXCEPT !.content = rd.content, !.pc = "stat2"]
    ELSE LET st == OsStat(fsys, e, l.path)
         IN IF st.err # ""
            THEN [l EXCEPT !.ret = Failure(Wrap("failed to get file info", NewError(st.err))),
                           !.pc = "done"]
            ELSE [l EXCEPT !.ret = [fc |-> << NewFileContent(l.path, l.absPath,
                                                             l.content, st.size) >>,
                                    err |-> NoError],
                           !.pc = "done"]

\* one step of the call with locals l on the FileProcessor f
CallStep(l, f, e, fsys) ==
    IF l.op = "ValidateFile"
    THEN [l EXCEPT !.ret = Failure(ValidateFile(l.path, f.allowedExtensions)),
                   !.pc = "done"]
    ELSE IF l.op = "FenceContent"
    THEN [l EXCEPT !.out = FenceContent(l.content, l.filename), !.pc = "done"]
    ELSE ProcessFileStep(l, f, e, fsys)

RECURSIVE RunAlone(_, _, _, _)
\* the call run from its start to its return with no other call in progress
RunAlone(l, f, e, fsys) ==
    IF l.pc = "done" THEN l ELSE RunAlone(CallStep(l, f, e, fsys), f, e, fsys)

InitGo ==
    /\ fp \in BuildProcessors
    /\ env \in {e \in Envs : ~e.homeErr /\ ~e.cwdErr /\ e.cwd = <<"/", "h", "/", "p">>}
    /\ fs \in { [l \in Leaves |-> IF l \in held THEN File(<<"a">>, TRUE) ELSE None] :
                  held \in SUBSET {EntryOf(p, env) : p \in { <<"x", ".", "c">>, <<"x", ".", "t">>, <<"/", "h", "/", "x", ".", "c">> }} }
    /\ pc = "idle"
    /\ path = <<>>
    /\ absPath = <<>>
    /\ content = <<>>
    /\ filename = <<>>
    /\ ret = NoResult
    /\ out = <<>>
    /\ trace = <<>>
    /\ writes = 0
    /\ calls = <<>>
    /\ builder = New
    /\ req = NoRequest
    /\ bpc = "idle"
    /\ result = NoBuildResult
    /\ args = <<>>
    /\ cpc = "idle"
    /\ stdout = <<>>
    /\ cliErr = NoError
    /\ threads \in {t \in [Goroutines -> GoCalls] :
                      \A i, j \in Goroutines : i # j => Arguments(t[i]) # Arguments(t[j])}

\* a step that keeps absPath in a field of the FileProcessor's process instead
\* of a local of the call
Go_Step_SharedAbsPath(g) ==
    /\ threads[g].pc # "done"
    /\ LET l == threads[g]
           shared == IF l.pc \in {"stat", "read"} THEN [l EXCEPT !.absPath = absPath] ELSE l
           stepped == CallStep(shared, fp, env, fs)
       IN /\ threads' = [threads EXCEPT ![g] = stepped]
          /\ absPath' = stepped.absPath
    /\ UNCHANGED <<fp, env, fs, pc, path, content, filename, ret, out, trace, writes>>
    /\ UNCHANGED <<calls, builder, req, bpc, result, args, cpc, stdout, cliErr>>

\* a step that records the size it has read as the FileProcessor's limit
Go_Step_WritesConfig(g) ==
    /\ threads[g].pc # "done"
    /\ LET stepped == CallStep(threads[g], fp, env, fs)
       IN /\ threads' = [threads EXCEPT ![g] = stepped]
          /\ fp' = [fp EXCEPT !.maxFileSize = Len(stepped.content)]
    /\ UNCHANGED <<env, fs, pc, path, absPath, content, filename, ret, out, trace, writes>>
    /\ UNCHANGED <<calls, builder, req, bpc, result, args, cpc, stdout, cliErr>>

\* goroutine g runs the next step of its call
Go_Step(g) ==
    /\ threads[g].pc # "done"
    /\ threads' = [threads EXCEPT ![g] = CallStep(threads[g], fp, env, fs)]
    /\ UNCHANGED <<fp, env, fs, pc, path, absPath, content, filename, ret, out, trace, writes>>
    /\ UNCHANGED <<calls, builder, req, bpc, result, args, cpc, stdout, cliErr>>

NextGo == \E g \in Goroutines : Go_Step(g)

SpecGo == InitGo /\ [][NextGo]_vars

(***************************************************************************)
(* BuildPrompt and RunCLI on files that ProcessFile refuses at each of its *)
(* steps, in every environment, with another process writing the file.     *)
(***************************************************************************)
FailurePaths ==
    { <<"x", ".", "c">>,  \* allowed extension, inside the working directory
      <<"x", ".", "t">>,  \* allowed by one of the processors only
      <<"x">>,  \* no extension
      <<" ">>,  \* blank
      <<"~", ".", "c">>,  \* denylisted
      <<"/", "o", "/", "x", ".", "c">>,  \* outside every root when the working directory is /h/p
      <<"/", "h", "/", "x", ".", "c">> }  \* absolute, inside the home directory

FailureArgLists ==
    { << <<"-", "p">>, <<"q">>, <<"-", "f">>, <<"x", ".", "p", "n", "g">> >>,
      << <<"-", "p">>, <<"q">>, <<"-", "f">>, <<"x", ".", "g", "o">> >>,
      << <<"-", "p">>, <<"q">>, <<"-", "f">>, <<"/", "o", "/", "x", ".", "p", "n", "g">> >> }

InitFailures ==
    /\ env \in Envs
    /\ pc = "idle"
    /\ path = <<>>
    /\ absPath = <<>>
    /\ content = <<>>
    /\ filename = <<>>
    /\ ret = NoResult
    /\ out = <<>>
    /\ trace = <<>>
    /\ writes = 0
    /\ calls = <<>>
    /\ result = NoBuildResult
    /\ stdout = <<>>
    /\ cliErr = NoError
    /\ threads = <<>>
    /\ builder = New
    /\ \/ /\ fp \in BuildProcessors
          /\ \E f \in FailurePaths : req = [NoRequest EXCEPT !.Prompt = <<"q">>, !.File = f]
          /\ fs \in BuildFilesystems(req.File, env)
          /\ bpc = "start"
          /\ args = <<>>
          /\ cpc = "idle"
       \/ /\ fp = NewFileProcessor(0, <<>>)
          /\ req = NoRequest
          /\ args \in FailureArgLists
          /\ fs \in BuildFilesystems(FileArgument(args), env)
          /\ bpc = "idle"
          /\ cpc = "start"

NextFailures ==
    \/ RunCLI_Begin
    \/ BuildPrompt_Begin
    \/ ProcessFile_Validate
    \/ ProcessFile_SecurityStat
    \/ ProcessFile_ReadFile
    \/ ProcessFile_Stat
    \/ OtherProcessWrites
    \/ BuildPrompt_Return
    \/ RunCLI_Finish

SpecFailures == InitFailures /\ [][NextFailures]_vars

(***************************************************************************)
(* A sequence of AddSystemPreset calls on one builder                      *)
(***************************************************************************)
PresetNames == { <<>>, <<" ">>, <<" ", "\t">>, <<"a">>, <<"b">>, <<" ", "a">> }

PresetMessages == { <<>>, <<"m">>, <<"n">> }

InitPresets ==
    /\ fp = NewFileProcessor(0, <<>>)
    /\ env \in {e \in Envs : ~e.homeErr /\ ~e.cwdErr /\ e.cwd = <<"/", "h", "/", "p">>}
    /\ fs = [l \in Leaves |-> None]
    /\ pc = "idle"
    /\ path = <<>>
    /\ absPath = <<>>
    /\ content = <<>>
    /\ filename = <<>>
    /\ ret = NoResult
    /\ out = <<>>
    /\ trace = <<>>
    /\ writes = 0
    /\ NoCaller

\* b.AddSystemPreset(name, message)
Call_AddSystemPreset ==
    /\ Len(calls) < MaxCalls
    /\ \E name \in PresetNames, message \in PresetMessages :
          LET added == AddSystemPreset(builder, name, message)
          IN /\ builder' = added.builder
             /\ calls' = Append(calls, Call("AddSystemPreset", fp, <<name, message>>,
                                            added.err))
    /\ UNCHANGED <<fp, env, fs, pc, path, absPath, content, filename, ret, out, trace, writes>>
    /\ UNCHANGED <<req, bpc, result, args, cpc, stdout, cliErr, threads>>

SpecPresets == InitPresets /\ [][Call_AddSystemPreset]_vars

(***************************************************************************)
(* C11                                                                     *)
(***************************************************************************)
\* C11: for a display name whose extension is not a code extension (no
\* extension included), FenceContent returns exactly BEGIN <name>, a newline,
\* the content, a newline and END <name>, and adds no fence delimiter.
C11_PlainDelimited ==
    (pc = "done" /\ ~IsCodeName(filename))
        => /\ out = <<"B", "E", "G", "I", "N", " ">> \o filename \o <<"\n">> \o content
                      \o <<"\n", "E", "N", "D", " ">> \o filename
           /\ Occurrences(out, Backticks)
                = Occurrences(content, Backticks) + 2 * Occurrences(filename, Backticks)

\* a text file whose content ends with a newline
C11_Witness ==
    /\ pc = "done"
    /\ content = <<"a", "\n">>
    /\ filename = <<"f", ".", "t", "x", "t">>
    /\ out = <<"B", "E", "G", "I", "N", " ", "f", ".", "t", "x", "t", "\n", "a", "\n", "\n", "E", "N", "D", " ", "f", ".", "t", "x", "t">>

(***************************************************************************)
(* C12                                                                     *)
(***************************************************************************)
FenceCalls == {i \in 1..Len(calls) : calls[i].op = "FenceContent"}

C13_ReturnedFileContentValid ==
    (pc = "done" /\ ret.fc # <<>>)
        => /\ ret.fc[1].Path # <<>>
           /\ ret.fc[1].Content # <<>>
           /\ ~IsError(FileContentValidate(ret.fc[1]))

(***************************************************************************)
(* C14                                                                     *)
(***************************************************************************)
\* the step of ProcessFile that a recorded operation belongs to
StepOf(operation) ==
    CASE operation = "ValidateFile" -> 1
      [] operation = "Abs" -> 2
      [] operation \in {"denylist", "UserHomeDir", "Getwd", "TempDir", "containment",
                        "Stat(absPath)"} -> 3
      [] operation = "ReadFile(absPath)" -> 4
      [] operation = "size" -> 5
      [] operation = "Stat(path)" -> 6

StepsRun == {StepOf(trace[i]) : i \in 1..Len(trace)}

\* the step that an error returned by ProcessFile reports, by its message
FailedStep(err) ==
    CASE err.chain[1] = "file validation failed" -> 1
      [] err.chain[1] = "invalid file path" -> 2
      [] err.chain[1] = "security validation failed" -> 3
      [] err.chain[1] = "failed to read file" -> 4
      [] err.chain[1] = "file is too large" -> 5
      [] err.chain[1] = "failed to get file info" -> 6

\* C14: ProcessFile runs path validation, absolute-path resolution, the
\* security check, the read, the size comparison and the secondary stat in
\* that order; a step runs only if every earlier step succeeded, and the
\* first failing step determines the returned error.
C14_StepOrder ==
    /\ \A i, j \in 1..Len(trace) : i < j => StepOf(trace[i]) <= StepOf(trace[j])
    /\ \E k \in 0..6 : StepsRun = 1..k
    /\ pc # "done" => ~IsError(ret.err)
    /\ (pc = "done" /\ ~IsError(ret.err)) => StepsRun = 1..6 /\ ret.fc # <<>>
    /\ (pc = "done" /\ IsError(ret.err))
          => /\ StepsRun = 1..FailedStep(ret.err)
             /\ ret.fc = <<>>
    /\ (pc = "done" /\ IsError(ValidateFile(path, fp.allowedExtensions)))
          => ret.err = Wrap("file validation failed",
                            ValidateFile(path, fp.allowedExtensions))
    /\ (pc = "done" /\ ~IsError(ValidateFile(path, fp.allowedExtensions))
                    /\ IsError(Abs(path, env).err))
          => FailedStep(ret.err) = 2
    /\ (pc = "done" /\ ~IsError(ValidateFile(path, fp.allowedExtensions))
                    /\ ~IsError(Abs(path, env).err)
                    /\ IsError(SecurityPrecheck(Abs(path, env).path, env)))
          => FailedStep(ret.err) = 3

\* a call stopped by the size comparison after the read, with nothing run
\* after it, although the file is gone by then
C14_Witness ==
    /\ pc = "done"
    /\ Is(ret.err, "ErrFileTooLarge")
    /\ trace[Len(trace)] = "size"
    /\ StepsRun = 1..5
    /\ writes = 1
    /\ OsStat(fs, env, path).err # ""

(***************************************************************************)
(* C15                                                                     *)
(***************************************************************************)
EnvironmentLookups == {"UserHomeDir", "Getwd", "TempDir"}

Ran(operation) == \E i \in 1..Len(trace) : trace[i] = operation

Before(first, second) ==
    \A i, j \in 1..Len(trace) : (trace[i] = first /\ trace[j] = second) => i < j

\* C15: validatePathSecurity checks the denylist, then root containment, then
\* stats the path: a path matching a denylist pattern is rejected before any
\* environment lookup or filesystem call, and a path outside the roots is
\* rejected before the stat.  The path /hx/x.c, outside the home /h, is
\* stat'ed.
C15_SecurityCheckOrder ==
    Ran("denylist")
        => /\ Before("denylist", "containment")
           /\ Before("containment", "Stat(absPath)")
           /\ Ran("Stat(absPath)") => Ran("containment")
           /\ ContainsDenylisted(absPath)
                => /\ pc = "done"
                   /\ Is(ret.err, "ErrSuspiciousPath")
                   /\ NoFilesystemCall
                   /\ \A l \in EnvironmentLookups : ~Ran(l)
           /\ ~InsideRoot(absPath)
                => /\ pc = "done"
                   /\ IsError(ret.err)
                   /\ ~Ran("Stat(absPath)")

(***************************************************************************)
(* C16                                                                     *)
(***************************************************************************)
ProcessFileCalls == {i \in 1..Len(calls) : calls[i].op = "ProcessFile"}

\* the error outer carries the error inner as its cause
Wraps(outer, inner) ==
    /\ Len(outer.chain) > Len(inner.chain)
    /\ HasSuffix(outer.chain, inner.chain)
    /\ \A i \in 1..Len(inner.chain) : Is(outer, inner.chain[i])

\* C16: when the request names a file and ProcessFile fails, BuildPrompt
\* returns a nil result and an error that wraps the error of ProcessFile; it
\* returns no partial prompt, puts no empty file content in its place and
\* calls ProcessFile once only.
C16_FileErrorPropagated ==
    (/\ bpc = "done"
     /\ req.File # <<>>
     /\ \E i \in ProcessFileCalls : IsError(calls[i].result.err))
        => /\ result.prompt = <<>>
           /\ IsError(result.err)
           /\ Cardinality(ProcessFileCalls) = 1
           /\ \A i \in ProcessFileCalls :
                 /\ calls[i].args = << req.File >>
                 /\ Wraps(result.err, calls[i].result.err)

\* a file larger than the limit: the content had been read when the call
\* failed, and none of it is returned
C16_Witness ==
    /\ bpc = "done"
    /\ cpc = "idle"
    /\ req.File = <<"x", ".", "c">>
    /\ content = <<"a", "b">>
    /\ Is(ret.err, "ErrFileTooLarge")
    /\ Is(result.err, "ErrFileTooLarge")
    /\ result.err.chain[1] = "failed to process file"
    /\ result.prompt = <<>>

(***************************************************************************)
(* C17                                                                     *)
(***************************************************************************)
\* the flags that ParseFlags hands to CLIFlags.Validate
ParsedFlags == FlagSetParse(args, NoFlags).flags

\* RunCLI got as far as validating the flags
FlagsValidated ==
    /\ cpc \in {"build", "done"}
    /\ \A i \in 1..Len(args) : args[i] \notin { <<"-", "h">>, <<"-", "-", "h", "e", "l", "p">> }

NoFileProcessing ==
    /\ pc = "idle"
    /\ trace = <<>>
    /\ calls = <<>>
    /\ ret = NoResult

\* C17: a build request or a set of command-line flags whose prompt is empty
\* or whitespace-only is rejected with ErrPromptRequired, and BuildPrompt
\* rejects it before any file processing, also when the request names a file.
C17_PromptRequired ==
    /\ (bpc # "idle" /\ IsBlank(req.Prompt))
          => /\ BuildRequestValidate(req) = NewError("ErrPromptRequired")
             /\ NoFileProcessing
             /\ bpc = "done"
                  => /\ Is(result.err, "ErrPromptRequired")
                     /\ result.prompt = <<>>
    /\ (FlagsValidated /\ IsBlank(ParsedFlags.Prompt))
          => /\ CLIFlagsValidate(ParsedFlags) = NewError("ErrPromptRequired")
             /\ cpc = "done"
             /\ Is(cliErr, "ErrPromptRequired")
             /\ bpc = "idle"
             /\ stdout = <<>>
             /\ NoFileProcessing

\* a whitespace-only prompt with a file that could have been read
C17_Witness ==
    /\ bpc = "done"
    /\ req.Prompt = <<" ", "\t">>
    /\ req.File = <<"x", ".", "c">>
    /\ Lookup(fs, env, <<"/", "h", "/", "p", "/", "x", ".", "c">>).node = File(<<"a">>, TRUE)
    /\ result = [prompt |-> <<>>,
                 err |-> Wrap("invalid build request", NewError("ErrPromptRequired"))]
    /\ NoFileProcessing

(***************************************************************************)
(* C18                                                                     *)
(***************************************************************************)
\* C18: when the build request carries image data, the prompt that
\* BuildPrompt builds contains the image data in a fenced, delimited block.
\* BuildPrompt never reads req.Image.
C18_ImageRendered ==
    (bpc = "done" /\ req.Image # <<>> /\ ~IsError(result.err))
        => /\ result.prompt # <<>>
           /\ Contains(PromptString(result.prompt[1]), req.Image)
           /\ Contains(result.prompt[1].FileContent, <<"\n">> \o req.Image \o <<"\n">>)

(***************************************************************************)
(* C19                                                                     *)
(***************************************************************************)
\* the file that -f names, looked up from the working directory
NamedFile == Lookup(fs, env, Abs(ParsedFlags.File, env).path)

\* the fenced content of a Go file with the display name and the content
FencedGo(name, c) ==
    <<"B", "E", "G", "I", "N", " ">> \o name \o <<"\n", Backtick, Backtick, Backtick, "g", "o", "\n">> \o c \o <<"\n", Backtick, Backtick, Backtick, "\n", "E", "N", "D", " ">> \o name

\* C19: RunCLI with a non-blank -p prompt and -f naming an existing regular
\* .go file of the working directory, under the size limit, returns no error
\* and writes non-empty output that includes the fenced content of the file.
\* RunCLI makes its FileProcessor with the allow-list [".png"].
C19_RunCLIWithGoFile ==
    (/\ cpc = "done"
     /\ FlagSetParse(args, NoFlags).exit = -1
     /\ \A i \in 1..Len(args) : args[i] \notin { <<"-", "h">>, <<"-", "-", "h", "e", "l", "p">> }
     /\ ~IsBlank(ParsedFlags.Prompt)
     /\ Ext(ParsedFlags.File) = <<".", "g", "o">>
     /\ ~IsAbs(ParsedFlags.File)
     /\ ~Contains(ParsedFlags.File, <<"/">>)
     /\ NamedFile.err = ""
     /\ NamedFile.node.kind = "file"
     /\ NamedFile.node.readable
     /\ Len(NamedFile.node.content) <= defaultMaxFileSize)
        => /\ ~IsError(cliErr)
           /\ stdout # <<>>
           /\ LET fenced == FencedGo(ParsedFlags.File, NamedFile.node.content)
              IN IF ParsedFlags.OutputFormat = <<"j", "s", "o", "n">>
                 THEN Contains(stdout, JSONEscape(fenced))
                 ELSE Contains(stdout, fenced)

(***************************************************************************)
(* C20                                                                     *)
(***************************************************************************)
BlankLine == <<"\n", "\n">>

\* C20: Prompt.String holds every non-empty component and leaves out the
\* empty ones, in the order system message, Guidelines: and the guidelines,
\* File content: and the file content, user prompt, with a blank line between
\* them; the user prompt is always there and always last.
C20_PromptString ==
    pc = "done"
        => LET p == result.prompt[1]
           IN /\ out = (IF p.SystemMessage # <<>>
                        THEN p.SystemMessage \o BlankLine ELSE <<>>)
                       \o (IF p.Guidelines # <<>>
                           THEN <<"G", "u", "i", "d", "e", "l", "i", "n", "e", "s", ":">> \o BlankLine \o p.Guidelines \o BlankLine
                           ELSE <<>>)
                       \o (IF p.FileContent # <<>>
                           THEN <<"F", "i", "l", "e", " ", "c", "o", "n", "t", "e", "n", "t", ":">> \o BlankLine \o p.FileContent \o BlankLine
                           ELSE <<>>)
                       \o p.UserPrompt
              /\ HasSuffix(out, p.UserPrompt)
              /\ HasPrefix(out, p.SystemMessage)
              /\ Contains(out, <<"G", "u", "i", "d", "e", "l", "i", "n", "e", "s", ":">>) <=> p.Guidelines # <<>>
              /\ Contains(out, <<"F", "i", "l", "e", " ", "c", "o", "n", "t", "e", "n", "t", ":">>) <=> p.FileContent # <<>>
              /\ (p.SystemMessage = <<>> /\ p.Guidelines = <<>> /\ p.FileContent = <<>>)
                    => out = p.UserPrompt
              /\ (p.SystemMessage # <<>> \/ p.Guidelines # <<>> \/ p.FileContent # <<>>)
                    => HasSuffix(out, BlankLine \o p.UserPrompt)

\* a prompt without guidelines: three components, two blank lines
C20_Witness ==
    /\ pc = "done"
    /\ result.prompt[1] = [SystemMessage |-> <<"x">>, Guidelines |-> <<>>,
                           FileContent |-> <<"x", "\n">>, UserPrompt |-> <<"x", "x">>]
    /\ out = <<"x", "\n", "\n", "F", "i", "l", "e", " ", "c", "o", "n", "t", "e", "n", "t", ":", "\n", "\n", "x", "\n", "\n", "\n", "x", "x">>

\* C21: whatever the interleaving of the steps of concurrent ProcessFile,
\* ValidateFile and FenceContent calls on one FileProcessor, each with its own
\* arguments, a call that has returned has returned what it returns when it
\* runs alone from start to return.
C21_SameResultAsAlone ==
    \A g \in Goroutines :
        threads[g].pc = "done" =>
            LET alone == RunAlone(NewCall(threads[g].op, threads[g].path,
                                          IF threads[g].op = "FenceContent"
                                          THEN threads[g].content ELSE <<>>,
                                          threads[g].filename), fp, env, fs)
            IN /\ threads[g].ret = alone.ret
               /\ threads[g].out = alone.out

\* C21 witness: two ProcessFile calls on different files have both returned,
\* one with a FileContent and one with an error.
C21_Witness ==
    /\ \A g \in Goroutines : threads[g].op = "ProcessFile" /\ threads[g].pc = "done"
    /\ threads[1].ret.fc # <<>>
    /\ IsError(threads[2].ret.err)
    /\ threads[2].absPath # <<>>

\* C22: no step of a ProcessFile (validatePathSecurity included), ValidateFile
\* or FenceContent call changes the FileProcessor's maxFileSize or
\* allowedExtensions, whether the step succeeds or fails.
C22_ConfigurationUnchanged == [][fp' = fp]_vars

\* C22 witness: on one FileProcessor a ProcessFile call was refused by
\* validatePathSecurity and a FenceContent call has returned.
C22_Witness ==
    /\ threads[1].op = "ProcessFile"
    /\ threads[1].pc = "done"
    /\ threads[1].ret.err.chain # <<>>
    /\ threads[1].ret.err.chain[1] = "security validation failed"
    /\ threads[2].op = "FenceContent"
    /\ threads[2].pc = "done"
    /\ fp.allowedExtensions = << <<".", "c">>, <<".", "t">> >>

\* the innermost error of a chain of wrapped errors
Cause(err) == err.chain[Len(err.chain)]

\* the sentinel errors of the package that ProcessFile can return
Sentinels ==
    {"ErrFilePathRequired", "ErrFileExtensionRequired", "ErrFileExtensionNotAllowed",
     "ErrSuspiciousPath", "ErrPathOutsideAllowed", "ErrPathIsDirectory", "ErrFileTooLarge"}

\* the errors of the operating system and of the environment lookups
SystemErrors == {"ENOENT", "ENOTDIR", "EISDIR", "EACCES", "GetwdError", "UserHomeDirError"}

\* the causes that a failure of each step of ProcessFile can have
CausesOfStep(step) ==
    CASE step = 1 -> {"ErrFilePathRequired", "ErrFileExtensionRequired",
                      "ErrFileExtensionNotAllowed"}
      [] step = 2 -> {"GetwdError"}
      [] step = 3 -> {"ErrSuspiciousPath", "ErrPathOutsideAllowed", "ErrPathIsDirectory",
                      "UserHomeDirError", "GetwdError", "ENOENT", "ENOTDIR"}
      [] step = 4 -> {"ENOENT", "ENOTDIR", "EISDIR", "EACCES"}
      [] step = 5 -> {"ErrFileTooLarge"}
      [] step = 6 -> {"ENOENT", "ENOTDIR"}

\* C23: a failure of ProcessFile ends the call: the failed step is the last
\* step run, no step has run twice, and nothing runs after it; the returned
\* error carries a sentinel or system error of the failed step as its cause,
\* and that cause is still found by errors.Is in the error of BuildPrompt and
\* in the error of RunCLI, which call ProcessFile once.
C23_FailureIsTerminal ==
    IsError(ret.err) =>
        /\ pc \in {"done", "idle"}
        /\ trace # <<>>
        /\ StepOf(trace[Len(trace)]) = FailedStep(ret.err)
        /\ \A i, j \in 1..Len(trace) : i # j => trace[i] # trace[j]
        /\ Cause(ret.err) \in CausesOfStep(FailedStep(ret.err))
        /\ Cause(ret.err) \in Sentinels \cup SystemErrors
        /\ ret.fc = <<>>
        /\ bpc = "done" => /\ Is(result.err, Cause(ret.err))
                           /\ Cardinality(ProcessFileCalls) = 1
        /\ cpc = "done" => Is(cliErr, Cause(ret.err))

\* C23 witness: RunCLI has returned the error of a ProcessFile call whose
\* file was removed by another process after it had been read.
C23_Witness ==
    /\ cpc = "done"
    /\ writes = 1
    /\ content = <<"a">>
    /\ FailedStep(ret.err) = 6
    /\ Is(cliErr, "ENOENT")
    /\ cliErr.chain[1] = "failed to build prompt"
    /\ stdout = <<>>

\* the call ran the secondary stat, the last of its filesystem calls
RanSecondaryStat == pc = "done" /\ trace # <<>> /\ trace[Len(trace)] = "Stat(path)"

\* C24: the read and the secondary stat are two filesystem calls: whatever
\* another process did to the file between them, when the entry still exists
\* at the stat the call succeeds with the Content of the earlier read and the
\* Size the stat reports, and when it was removed the call fails with the
\* error of the stat, the content having been read.
C24_ReadAndStatNotAtomic ==
    RanSecondaryStat =>
        /\ ReadBeforeSize
        /\ IF Target.err = ""
           THEN /\ ret.err = NoError
                /\ ret.fc = << [Path |-> path, Content |-> content,
                                Size |-> Len(Target.node.content)] >>
           ELSE /\ ret.fc = <<>>
                /\ ret.err.chain = <<"failed to get file info", Target.err>>

\* C24 witness: the file held one byte at the read and two at the stat, and
\* the call returned the one byte with Size 2.
C24_Witness ==
    /\ RanSecondaryStat
    /\ writes = 1
    /\ ret.err = NoError
    /\ ret.fc[1].Content = <<"a">>
    /\ ret.fc[1].Size = 2
    /\ Target.node.content = <<"b", "a">>

\* the lines that FenceContent writes before the content
OpeningLines(name) ==
    <<"B", "E", "G", "I", "N", " ">> \o name \o <<"\n">>
    \o (IF IsCodeName(name) THEN Backticks \o LanguageOf(name) \o <<"\n">> ELSE <<>>)

\* the lines that FenceContent writes after the content
ClosingLines(name) ==
    (IF IsCodeName(name) THEN <<"\n">> \o Backticks ELSE <<>>) \o <<"\n", "E", "N", "D", " ">> \o name

\* C25: for every content, the output of FenceContent is the opening lines,
\* then the content byte for byte, then the closing lines; a content that
\* holds the text of an END line, of a BEGIN line or of a fence is copied like
\* any other, so the output has an END line for each one in the content
\* besides its own.
C25_ContentVerbatim ==
    pc = "done" =>
        LET opening == OpeningLines(filename)
            closing == ClosingLines(filename)
        IN /\ Len(out) = Len(opening) + Len(content) + Len(closing)
           /\ HasPrefix(out, opening)
           /\ SubSeq(out, Len(opening) + 1, Len(opening) + Len(content)) = content
           /\ HasSuffix(out, closing)
           /\ Occurrences(out, <<"\n", "E", "N", "D", " ">> \o filename)
                >= 1 + Occurrences(content, <<"\n", "E", "N", "D", " ">> \o filename)

\* C25 witness: the content of a Go file holds the line END f.go, and the
\* output has two such lines.
C25_Witness ==
    /\ pc = "done"
    /\ filename = <<"f", ".", "g", "o">>
    /\ content = <<"x", "\n", "E", "N", "D", " ", "f", ".", "g", "o", "\n", "y">>
    /\ Occurrences(out, <<"\n", "E", "N", "D", " ", "f", ".", "g", "o">>) = 2
    /\ out = <<"B", "E", "G", "I", "N", " ", "f", ".", "g", "o", "\n", Backtick, Backtick, Backtick, "g", "o", "\n", "x", "\n", "E", "N", "D", " ", "f", ".", "g", "o", "\n", "y", "\n", Backtick, Backtick, Backtick, "\n", "E", "N", "D", " ", "f", ".", "g", "o">>

\* the string p begins with the characters of the string root
StartsWith(p, root) ==
    Len(p) >= Len(root) /\ \A i \in 1..Len(root) : p[i] = root[i]

\* C26: with the home and working directory known and no denylisted
\* substring in the path, validatePathSecurity lets an absolute path past
\* root containment exactly when the home, working or temp directory string
\* is a prefix of the path string, character by character; the end of a path
\* element plays no part.
C26_PrefixContainment ==
    (/\ pc = "done"
     /\ ~env.homeErr /\ ~env.cwdErr
     /\ ~ContainsDenylisted(absPath))
        => (~Is(ret.err, "ErrPathOutsideAllowed")
              <=> \E root \in {env.home, env.cwd, env.tmp} : StartsWith(absPath, root))

\* C26 witness: /hc is no entry under the home directory /h, nor under the
\* working or temp directory, and passed containment: the call went on to
\* the stat.
C26_Witness ==
    /\ pc = "done"
    /\ absPath = <<"/", "h", "c">>
    /\ env.home = <<"/", "h">>
    /\ ~LiesUnder(absPath, env.home)
    /\ ~LiesUnder(absPath, env.cwd)
    /\ ~LiesUnder(absPath, env.tmp)
    /\ ret.err.chain = <<"failed to stat file", "ENOENT">>

\* the task of the request is the name of a preset of the builder
TaskRegistered == req.Task \in DOMAIN builder.systemPresets

\* C27: in the prompt that BuildPrompt returns, the system message is the
\* literal SystemMessage of the request when that is not empty, whatever the
\* task; otherwise the message of the preset the task names when it is
\* registered; otherwise empty.  A task that is not registered is no error:
\* a request with a prompt and no file succeeds.
C27_SystemMessagePrecedence ==
    bpc = "done" =>
        /\ ~IsError(result.err) =>
              LET systemMessage == result.prompt[1].SystemMessage
              IN /\ req.SystemMessage # <<>> => systemMessage = req.SystemMessage
                 /\ (req.SystemMessage = <<>> /\ TaskRegistered)
                       => systemMessage = builder.systemPresets[req.Task]
                 /\ (req.SystemMessage = <<>> /\ ~TaskRegistered) => systemMessage = <<>>
        /\ (~IsBlank(req.Prompt) /\ req.File = <<>>) => ~IsError(result.err)
        /\ IsError(result.err)
              => \/ Is(result.err, "ErrPromptRequired")
                 \/ result.err.chain[1] = "failed to process file"

\* C27 witness: the request carries a literal system message and the task of
\* a registered preset, and the prompt has the literal.
C27_Witness ==
    /\ bpc = "done"
    /\ req.SystemMessage = <<"s">>
    /\ req.Task = <<"c", "o", "d", "i", "n", "g">>
    /\ TaskRegistered
    /\ builder.systemPresets[req.Task] = <<"C">>
    /\ result.prompt # <<>>
    /\ result.prompt[1].SystemMessage = <<"s">>

\* an unregistered task with no literal gives an empty system message
C27_WitnessUnregistered ==
    /\ bpc = "done"
    /\ req.SystemMessage = <<>>
    /\ req.Task = <<"z", "z">>
    /\ ~TaskRegistered
    /\ result.err = NoError
    /\ result.prompt[1].SystemMessage = <<>>

\* ProcessFile returned a FileContent
Succeeded == pc = "done" /\ ret.err = NoError /\ ret.fc # <<>>

Accepted == {i \in 1..Len(calls) : calls[i].op = "AddSystemPreset" /\ ~IsError(calls[i].result)}

\* the accepted calls made for the name
AcceptedFor(name) == {i \in Accepted : calls[i].args[1] = name}

\* the last of the accepted calls made for the name
LastAcceptedFor(name) == CHOOSE i \in AcceptedFor(name) : \A j \in AcceptedFor(name) : j <= i

\* C29: after any sequence of AddSystemPreset calls the preset map has no
\* empty or whitespace-only name, its names are the names of the accepted
\* calls, so that a rejected call has added and changed nothing, and each
\* name has the message of the last accepted call made for it.
C29_PresetMap ==
    /\ \A name \in DOMAIN builder.systemPresets : ~IsBlank(name)
    /\ DOMAIN builder.systemPresets = {calls[i].args[1] : i \in Accepted}
    /\ \A name \in DOMAIN builder.systemPresets :
          builder.systemPresets[name] = calls[LastAcceptedFor(name)].args[2]
    /\ \A i \in 1..Len(calls) : IsBlank(calls[i].args[1]) => i \notin Accepted

\* C29 witness: the name a was given the message m, a call with a blank name
\* was rejected, and a was given the message n, which it has.
C29_Witness ==
    /\ Len(calls) = 3
    /\ calls[1].args = << <<"a">>, <<"m">> >>
    /\ calls[2].args = << <<" ">>, <<"m">> >>
    /\ IsError(calls[2].result)
    /\ calls[3].args = << <<"a">>, <<"n">> >>
    /\ DOMAIN builder.systemPresets = { <<"a">> }
    /\ builder.systemPresets[ <<"a">> ] = <<"n">>

\* C30: a ProcessFile call that has returned has returned either a
\* FileContent and no error, or an error and no FileContent; when it failed
\* after the content was read, on the size limit or at the secondary stat,
\* the result holds nothing of the content.
C30_FileContentOrError ==
    pc = "done" =>
        /\ Len(ret.fc) <= 1
        /\ (ret.fc # <<>>) # IsError(ret.err)
        /\ IsError(ret.err) => ret = [fc |-> <<>>, err |-> ret.err]
        /\ (IsError(ret.err) /\ content # <<>>)
              => /\ FailedStep(ret.err) \in {5, 6}
                 /\ ret.err.pattern = <<>>

\* C30 witness: the secondary stat failed after one byte was read, and the
\* call returned the error alone.
C30_Witness ==
    /\ pc = "done"
    /\ content = <<"a">>
    /\ trace[Len(trace)] = "Stat(path)"
    /\ ret.err.chain = <<"failed to get file info", "ENOENT">>
    /\ ret.fc = <<>>

\* a file over the limit was read and refused, and the call returned the
\* error alone
C30_WitnessTooLarge ==
    /\ pc = "done"
    /\ Len(content) > fp.maxFileSize
    /\ Is(ret.err, "ErrFileTooLarge")
    /\ ret.fc = <<>>

====
